---- MODULE Spec2Model ----
(***************************************************************************)
(* Order lifecycle, pricing, order numbers and payment reconciliation of   *)
(* the matchaciee backend (internal/services/order_service.go,             *)
(* the payment service, internal/repositories/*.go).                       *)
(*                                                                         *)
(* Conventions                                                             *)
(*  - Go strings are sequences of one-character strings, so concatenation, *)
(*    LIKE 'prefix%', ORDER BY, strings.Split, strconv.Atoi/ParseFloat and  *)
(*    fmt.Sprintf are computed on the characters.                          *)
(*  - Money is an integer number of mills (1/1000 of a rupiah).  float64   *)
(*    arithmetic is taken as exact decimal arithmetic; DECIMAL(10,2)       *)
(*    columns hold multiples of 10 mills.                                  *)
(*  - A nullable column or Go pointer is <<>> (NULL / nil) or <<v>>.       *)
(*  - A row's primary key is its index in the table; its uuid is modelled  *)
(*    by the same number.                                                  *)
(***************************************************************************)
EXTENDS Integers, Sequences, FiniteSets, TLC

VARIABLES
    clock,      \* time.Now(): [day, sec]
    orders,     \* table orders: sequence of rows, ID = index
    order_items, \* table order_items
    payments,   \* table payments: sequence of rows, ID = index
    creq,       \* per worker: an order creation in progress
    cartPool,   \* the carts clients submit
    products,   \* table products
    customizations, \* table product_customizations
    users,      \* table users: sequence of rows, ID = index
    refresh_tokens, \* table refresh_tokens: sequence of rows, ID = index
    rreq,       \* per worker: a RefreshToken call in progress
    responses,  \* the AuthResponses RefreshToken has returned to clients
    ureq,       \* per worker: an UpdateOrderStatus call in progress
    last        \* what the most recent service call returned

\* the state of authService
authVars == <<users, refresh_tokens, rreq, responses>>

vars == <<clock, orders, order_items, payments, creq, cartPool, products, customizations,
          authVars, ureq, last>>

----------------------------------------------------------------------------
(* Bounds of the model *)

\* orders in the lifecycle specification
MaxOrders == 1

\* rows of refresh_tokens after which nobody logs in or refreshes any more
MaxTokens == 3

\* the busy day: the orders created before the model starts, how many of their
\* rows the model keeps, and how many creations follow
BusyLast == 998
BusyKept == 2
MaxBusy == 3
\* payment attempts
MaxPayments == 2
\* seconds of the clock in the lifecycle specification
MaxSec == 1
\* orders, and midnights, in the order creation specification
MaxCreated == 2
MaxDay == 1
\* lines of a cart in the pricing specification
MaxLines == 2
\* payment attempts in the reconciliation specification
MaxAttempts == 1

----------------------------------------------------------------------------
(* Strings *)

Nil == <<>>
Some(v) == <<v>>

Digits == <<"0", "1", "2", "3", "4", "5", "6", "7", "8", "9">>

IsDigit(c) == \E i \in 1..10 : Digits[i] = c

DigitVal(c) == (CHOOSE i \in 1..10 : Digits[i] = c) - 1

\* byte order of the characters that occur in order numbers ('-' < digits < letters)
CharRank(c) == IF c = "-" THEN 0 ELSE IF IsDigit(c) THEN 1 + DigitVal(c) ELSE 11

RECURSIVE Itoa(_)
\* fmt "%d" of a non-negative integer
Itoa(n) == IF n < 10 THEN <<Digits[n + 1]>> ELSE Append(Itoa(n \div 10), Digits[(n % 10) + 1])

RECURSIVE PadLeft(_, _)
PadLeft(s, w) == IF Len(s) >= w THEN s ELSE PadLeft(<<"0">> \o s, w)

\* fmt.Sprintf("%03d", n), n >= 0: at least three digits, wider when needed
Sprintf03d(n) == PadLeft(Itoa(n), 3)

RECURSIVE DigitsVal(_)
DigitsVal(s) == IF s = <<>> THEN 0 ELSE 10 * DigitsVal(SubSeq(s, 1, Len(s) - 1)) + DigitVal(s[Len(s)])

AllDigits(s) == s # <<>> /\ \A i \in 1..Len(s) : IsDigit(s[i])

\* strconv.Atoi: optional sign, then digits only
Atoi(s) ==
    LET signed == s # <<>> /\ s[1] \in {"+", "-"}
        body == IF signed THEN Tail(s) ELSE s
    IN  IF AllDigits(body)
        THEN [ok |-> TRUE, val |-> IF signed /\ s[1] = "-" THEN 0 - DigitsVal(body) ELSE DigitsVal(body)]
        ELSE [ok |-> FALSE, val |-> 0]

HasPrefix(s, p) == Len(s) >= Len(p) /\ SubSeq(s, 1, Len(p)) = p

RECURSIVE StrLess(_, _)
\* a < b in byte order
StrLess(a, b) ==
    IF b = <<>> THEN FALSE
    ELSE IF a = <<>> THEN TRUE
    ELSE IF a[1] # b[1] THEN CharRank(a[1]) < CharRank(b[1])
    ELSE StrLess(Tail(a), Tail(b))

RECURSIVE Split(_, _)
\* strings.Split(s, sep) for a one-character separator
Split(s, sep) ==
    IF \A i \in 1..Len(s) : s[i] # sep THEN <<s>>
    ELSE LET k == CHOOSE i \in 1..Len(s) : s[i] = sep /\ \A j \in 1..(i - 1) : s[j] # sep
         IN  <<SubSeq(s, 1, k - 1)>> \o Split(SubSeq(s, k + 1, Len(s)), sep)

----------------------------------------------------------------------------
(* Money *)

\* n rupiah, in mills
Rp(n) == n * 1000

\* a DECIMAL(10,2) column rounds what it is given to the nearest 0.01, half away from zero
Decimal2(x) ==
    LET a == IF x < 0 THEN 0 - x ELSE x
        r == ((a + 5) \div 10) * 10
    IN  IF x < 0 THEN 0 - r ELSE r

\* rounding to a whole rupiah, half away from zero
RoundUnit(x) ==
    LET a == IF x < 0 THEN 0 - x ELSE x
        r == ((a + 500) \div 1000) * 1000
    IN  IF x < 0 THEN 0 - r ELSE r

\* a tax rounded to a whole rupiah
TaxOf_Rounded(subtotal) == RoundUnit(subtotal \div 10)

\* subtotal * 0.10
TaxOf(subtotal) == subtotal \div 10

----------------------------------------------------------------------------
(* Catalog: the rows of products and product_customizations *)

Str_MatchaLatte == <<"M", "a", "t", "c", "h", "a", " ", "L", "a", "t", "t", "e">>
Str_HojichaLatte == <<"H", "o", "j", "i", "c", "h", "a">>
Str_Mochi == <<"M", "o", "c", "h", "i">>

Catalog == <<
    [ID |-> 1, Name |-> Str_MatchaLatte, BasePrice |-> Rp(45000), IsAvailable |-> TRUE,
     IsCustomizable |-> TRUE, Deleted |-> FALSE],
    [ID |-> 2, Name |-> Str_HojichaLatte, BasePrice |-> Rp(45005) + 270, IsAvailable |-> TRUE,
     IsCustomizable |-> FALSE, Deleted |-> FALSE],
    [ID |-> 3, Name |-> Str_Mochi, BasePrice |-> Rp(12000), IsAvailable |-> FALSE,
     IsCustomizable |-> TRUE, Deleted |-> FALSE] >>

CatalogCustomizations == <<
    [ID |-> 1, ProductID |-> 1, CustomizationType |-> "Milk Type", OptionName |-> "Oat Milk",
     PriceModifier |-> Rp(5000), Deleted |-> FALSE],
    [ID |-> 2, ProductID |-> 1, CustomizationType |-> "Sugar Level", OptionName |-> "Less Sugar",
     PriceModifier |-> 0 - Rp(2000), Deleted |-> FALSE],
    [ID |-> 3, ProductID |-> 2, CustomizationType |-> "Size", OptionName |-> "Large",
     PriceModifier |-> Rp(3000), Deleted |-> FALSE] >>

\* a uuid no row has
UnknownID == 9

NotFound == [found |-> FALSE]

\* a lookup that reports every product as available
ProductFindByUUID_AlwaysAvailable(uuid) ==
    IF uuid \in 1..Len(products) /\ ~products[uuid].Deleted
    THEN [found |-> TRUE, row |-> [products[uuid] EXCEPT !.IsAvailable = TRUE]]
    ELSE NotFound

\* productRepository.FindByUUID: WHERE uuid = ? AND deleted_at IS NULL
ProductFindByUUID(uuid) ==
    IF uuid \in 1..Len(products) /\ ~products[uuid].Deleted
    THEN [found |-> TRUE, row |-> products[uuid]]
    ELSE NotFound

\* productRepository.FindCustomizationByUUID; a row DeleteCustomization removed is
\* kept as a tombstone (Deleted) and never found
FindCustomizationByUUID(uuid) ==
    IF uuid \in 1..Len(customizations) /\ ~customizations[uuid].Deleted
    THEN [found |-> TRUE, row |-> customizations[uuid]]
    ELSE NotFound

----------------------------------------------------------------------------
(* Pricing and cart validation (order_service.go) *)

EmptyMap == <<>>

\* m[k] = v on a Go map
MapPut(m, k, v) == [x \in (DOMAIN m) \cup {k} |-> IF x = k THEN v ELSE m[x]]

RECURSIVE ValidateCustomizations_NoOwner(_, _, _, _)
\* a loop that never compares the customization's product with the line's product
ValidateCustomizations_NoOwner(customReqs, j, product, customMap) ==
    IF j > Len(customReqs) THEN [err |-> "nil", customMap |-> customMap]
    ELSE LET custom == FindCustomizationByUUID(customReqs[j])
         IN  IF ~custom.found THEN [err |-> "customization not found", customMap |-> customMap]
             ELSE ValidateCustomizations_NoOwner(customReqs, j + 1, product,
                                                 MapPut(customMap, customReqs[j], custom.row))

RECURSIVE ValidateCustomizations(_, _, _, _)
\* the inner loop of validateAndFetchProducts over item.Customizations, from index j
ValidateCustomizations(customReqs, j, product, customMap) ==
    IF j > Len(customReqs) THEN [err |-> "nil", customMap |-> customMap]
    ELSE LET custom == FindCustomizationByUUID(customReqs[j])
         IN  IF ~custom.found THEN [err |-> "customization not found", customMap |-> customMap]
             ELSE IF custom.row.ProductID # product.ID
                  THEN [err |-> "ErrInvalidCustomization", customMap |-> customMap]
             ELSE ValidateCustomizations(customReqs, j + 1, product,
                                         MapPut(customMap, customReqs[j], custom.row))

RECURSIVE validateAndFetchProducts_DropsCustomizations(_, _, _, _)
\* a loop that ignores the customizations of a product that is not customizable
validateAndFetchProducts_DropsCustomizations(items, i, prods, customizationsMap) ==
    IF i > Len(items)
    THEN [err |-> "nil", products |-> prods, customizationsMap |-> customizationsMap]
    ELSE LET item == items[i]
             product == ProductFindByUUID(item.ProductID)
             failed(e) == [err |-> e, products |-> EmptyMap, customizationsMap |-> EmptyMap]
         IN  IF ~product.found THEN failed("product not found")
             ELSE IF ~product.row.IsAvailable THEN failed("ErrProductNotAvailable")
             ELSE LET prods2 == MapPut(prods, item.ProductID, product.row)
                  IN  IF Len(item.Customizations) > 0 /\ product.row.IsCustomizable
                      THEN LET v == ValidateCustomizations(item.Customizations, 1,
                                                           product.row, EmptyMap)
                           IN  IF v.err # "nil" THEN failed(v.err)
                               ELSE validateAndFetchProducts_DropsCustomizations(
                                        items, i + 1, prods2,
                                        MapPut(customizationsMap, item.ProductID, v.customMap))
                      ELSE validateAndFetchProducts_DropsCustomizations(
                               items, i + 1, prods2, customizationsMap)

RECURSIVE validateAndFetchProducts(_, _, _, _)
\* the loop of validateAndFetchProducts over items, from index i
validateAndFetchProducts(items, i, prods, customizationsMap) ==
    IF i > Len(items)
    THEN [err |-> "nil", products |-> prods, customizationsMap |-> customizationsMap]
    ELSE LET item == items[i]
             product == ProductFindByUUID(item.ProductID)
             failed(e) == [err |-> e, products |-> EmptyMap, customizationsMap |-> EmptyMap]
         IN  IF ~product.found THEN failed("product not found")
             ELSE IF ~product.row.IsAvailable THEN failed("ErrProductNotAvailable")
             ELSE LET prods2 == MapPut(prods, item.ProductID, product.row)
                  IN  IF Len(item.Customizations) > 0
                      THEN IF ~product.row.IsCustomizable THEN failed("ErrProductNotCustomizable")
                           ELSE LET v == ValidateCustomizations(item.Customizations, 1,
                                                                product.row, EmptyMap)
                                IN  IF v.err # "nil" THEN failed(v.err)
                                    ELSE validateAndFetchProducts(items, i + 1, prods2,
                                             MapPut(customizationsMap, item.ProductID, v.customMap))
                      ELSE validateAndFetchProducts(items, i + 1, prods2, customizationsMap)

RECURSIVE SumModifiers(_)
\* unitPrice += custom.PriceModifier over the entries of a customization map
SumModifiers(customMap) ==
    IF DOMAIN customMap = {} THEN 0
    ELSE LET k == CHOOSE x \in DOMAIN customMap : TRUE
         IN  customMap[k].PriceModifier
             + SumModifiers([x \in (DOMAIN customMap) \ {k} |-> customMap[x]])

\* the customization list serialized on the item; Go iterates the map in no
\* particular order, so the list is kept as the set of its entries
SnapshotCustomizations(customMap) ==
    { [customization_type |-> customMap[k].CustomizationType,
       option_name |-> customMap[k].OptionName,
       price_modifier |-> customMap[k].PriceModifier] : k \in DOMAIN customMap }

\* one iteration of the loop of calculateOrderTotals: the order item built for a line
BuildOrderItem(item, prods, customizationsMap) ==
    LET product == prods[item.ProductID]
        hasCustom == item.ProductID \in DOMAIN customizationsMap
                     /\ DOMAIN customizationsMap[item.ProductID] # {}
        unitPrice == product.BasePrice
                     + (IF hasCustom THEN SumModifiers(customizationsMap[item.ProductID]) ELSE 0)
    IN  [ProductID |-> product.ID,
         ProductName |-> product.Name,
         Quantity |-> item.Quantity,
         UnitPrice |-> unitPrice,
         Subtotal |-> unitPrice * item.Quantity,
         Customizations |-> IF hasCustom
                            THEN Some(SnapshotCustomizations(customizationsMap[item.ProductID]))
                            ELSE Nil]

RECURSIVE SumSubtotals(_)
SumSubtotals(orderItems) ==
    IF orderItems = <<>> THEN 0 ELSE orderItems[1].Subtotal + SumSubtotals(Tail(orderItems))

\* calculateOrderTotals: the subtotal and the order items
calculateOrderTotals(items, prods, customizationsMap) ==
    LET orderItems == [i \in 1..Len(items) |-> BuildOrderItem(items[i], prods, customizationsMap)]
    IN  [subtotal |-> SumSubtotals(orderItems), orderItems |-> orderItems]

----------------------------------------------------------------------------
(* Clock *)

\* time.Now().Format("060102"); day 0 is 2026-01-09
DateStr(day) == <<"2", "6", "0", "1">> \o PadLeft(Itoa(9 + day), 2)

\* time.Now().Unix(), counted from the start of day 0
Unix(t) == t.day * 86400 + t.sec

----------------------------------------------------------------------------
(* orderRepository *)

OrderStatusPending == "pending"
OrderStatusPreparing == "preparing"
OrderStatusReady == "ready"
OrderStatusCompleted == "completed"
OrderStatusCancelled == "cancelled"

OrderStatuses == {OrderStatusPending, OrderStatusPreparing, OrderStatusReady,
                  OrderStatusCompleted, OrderStatusCancelled}

Str_MC == <<"M", "C", "-">>

OrderPrefix(day) == Str_MC \o DateStr(day) \o <<"-">>

\* SELECT ... WHERE order_number LIKE prefix% ORDER BY order_number DESC LIMIT 1
LastOrderWithPrefix(prefix) ==
    LET matching == {i \in 1..Len(orders) : HasPrefix(orders[i].OrderNumber, prefix)}
    IN  IF matching = {} THEN NotFound
        ELSE [found |-> TRUE,
              row |-> orders[CHOOSE i \in matching :
                         \A j \in matching : ~StrLess(orders[i].OrderNumber, orders[j].OrderNumber)]]

\* orderRepository.GenerateOrderNumber: one transaction that only reads
GenerateOrderNumber ==
    LET prefix == OrderPrefix(clock.day)
        lastOrder == LastOrderWithPrefix(prefix)
        parts == IF lastOrder.found THEN Split(lastOrder.row.OrderNumber, "-") ELSE <<>>
        seq == IF lastOrder.found /\ Len(parts) = 3 /\ Atoi(parts[3]).ok
               THEN Atoi(parts[3]).val + 1
               ELSE 1
    IN  prefix \o Sprintf03d(seq)

\* an orders table without the UNIQUE constraint on order_number
OrderInsertError_NoUnique(order) ==
    IF order.Subtotal < 0 \/ order.Tax < 0 \/ order.Total < 0
    THEN "violates check constraint"
    ELSE "nil"

\* what the INSERT into orders answers: the UNIQUE and CHECK constraints of the table
OrderInsertError(order) ==
    IF \E i \in 1..Len(orders) : orders[i].OrderNumber = order.OrderNumber
    THEN "duplicate key value violates unique constraint"
    ELSE IF order.Subtotal < 0 \/ order.Tax < 0 \/ order.Total < 0
    THEN "violates check constraint"
    ELSE "nil"

\* the row INSERTed for an order: DECIMAL(10,2) columns, created_at
OrderRow(order, id) ==
    [ID |-> id,
     OrderNumber |-> order.OrderNumber,
     UserID |-> order.UserID,
     Status |-> order.Status,
     OrderSource |-> order.OrderSource,
     Subtotal |-> Decimal2(order.Subtotal),
     Tax |-> Decimal2(order.Tax),
     Total |-> Decimal2(order.Total),
     CompletedAt |-> Nil,
     CreatedDay |-> clock.day]

\* OrderItem.Quantity carries gorm:"default:1": a zero Quantity is INSERTed as the default
QuantityDefault == 1

\* the rows INSERTed for the items of order id
OrderItemRows(items, id) ==
    [i \in 1..Len(items) |->
        [OrderID |-> id,
         Line |-> i,
         ProductID |-> items[i].ProductID,
         ProductName |-> items[i].ProductName,
         Quantity |-> IF items[i].Quantity = 0 THEN QuantityDefault ELSE items[i].Quantity,
         UnitPrice |-> Decimal2(items[i].UnitPrice),
         Subtotal |-> Decimal2(items[i].Subtotal),
         Customizations |-> items[i].Customizations]]

\* orderRepository.UpdateStatus: UPDATE orders SET status [, completed_at] WHERE id = ?
UpdateStatus(tbl, orderID, status) ==
    [i \in 1..Len(tbl) |->
        IF tbl[i].ID # orderID THEN tbl[i]
        ELSE IF status = OrderStatusCompleted
             THEN [tbl[i] EXCEPT !.Status = status, !.CompletedAt = Some(Unix(clock))]
             ELSE [tbl[i] EXCEPT !.Status = status]]

\* orderRepository.FindByUUID
OrderFindByUUID(uuid) ==
    IF uuid \in 1..Len(orders) THEN [found |-> TRUE, row |-> orders[uuid]] ELSE NotFound

----------------------------------------------------------------------------
(* orderService *)

\* isValidStatusTransition: the validTransitions map
validTransitions ==
    [s \in OrderStatuses |->
        IF s = OrderStatusPending THEN {OrderStatusPreparing, OrderStatusCancelled}
        ELSE IF s = OrderStatusPreparing THEN {OrderStatusReady}
        ELSE IF s = OrderStatusReady THEN {OrderStatusCompleted}
        ELSE {}]

\* a transition table with a shortcut pending -> ready added
isValidStatusTransition_Skip(current, new) ==
    \/ new \in validTransitions[current]
    \/ (current = OrderStatusPending /\ new = OrderStatusReady)

isValidStatusTransition(current, new) == new \in validTransitions[current]

\* the users table: the uuids FindByUUID finds
Users == {1}

RoleMember == "member"
RoleKiosk == "kiosk"
RoleBarista == "barista"
RoleAdmin == "admin"

\* the rows of users at the start: the member FindByUUID finds
UserTable == <<[ID |-> 1, Role |-> RoleMember, IsActive |-> TRUE]>>

\* the request handlers that run concurrently
Workers == {1, 2}

Idle == [pc |-> "idle"]

InFlight == Cardinality({w \in Workers : creq[w].pc # "idle"})

Result(op, err) == [op |-> op, err |-> err]

\* CreateOrder (user \in Users or unknown) and CreateGuestOrder (user = 0), up to
\* and including GenerateOrderNumber
CreateOrderBegin(w, user, items) ==
    /\ creq[w].pc = "idle"
    /\ LET op == IF user = 0 THEN "CreateGuestOrder" ELSE "CreateOrder"
           v == validateAndFetchProducts(items, 1, EmptyMap, EmptyMap)
           t == calculateOrderTotals(items, v.products, v.customizationsMap)
           subtotal == t.subtotal
           tax == TaxOf(subtotal)
           total == subtotal + tax
           order == [OrderNumber |-> GenerateOrderNumber,
                     UserID |-> IF user = 0 THEN Nil ELSE Some(user),
                     Status |-> OrderStatusPending,
                     OrderSource |-> IF user = 0 THEN "guest" ELSE "member",
                     Subtotal |-> subtotal,
                     Tax |-> tax,
                     Total |-> total]
       IN  IF user # 0 /\ user \notin Users
           THEN /\ last' = Result(op, "ErrUserNotFound")
                /\ UNCHANGED creq
           ELSE IF v.err # "nil"
           THEN /\ last' = Result(op, v.err)
                /\ UNCHANGED creq
           ELSE /\ creq' = [creq EXCEPT ![w] = [pc |-> "numbered", op |-> op, req |-> items,
                                                 today |-> clock.day,
                                                 order |-> order, items |-> t.orderItems]]
                /\ last' = Result(op, "running")
    /\ UNCHANGED <<clock, orders, order_items, payments, cartPool, products, customizations, authVars, ureq>>

\* what the database does with the transaction of orderRepo.Create
TxOutcomes == {"ok", "items insert fails", "process stops"}

\* an orderRepo.Create whose two INSERTs are not inside one transaction: the
\* order row stays when the items are not written
CreateOrderCommit_NoTransaction(w, db) ==
    /\ creq[w].pc = "numbered"
    /\ LET err == OrderInsertError(creq[w].order)
           id == Len(orders) + 1
       IN  IF err # "nil"
           THEN /\ last' = Result(creq[w].op, err)
                /\ UNCHANGED <<orders, order_items>>
           ELSE IF db = "process stops"
           THEN /\ orders' = Append(orders, OrderRow(creq[w].order, id))
                /\ last' = Result(creq[w].op, "stopped")
                /\ UNCHANGED order_items
           ELSE IF db = "items insert fails" /\ Len(creq[w].items) > 0
           THEN /\ orders' = Append(orders, OrderRow(creq[w].order, id))
                /\ last' = Result(creq[w].op, "insert of order items failed")
                /\ UNCHANGED order_items
           ELSE /\ orders' = Append(orders, OrderRow(creq[w].order, id))
                /\ order_items' = order_items \o OrderItemRows(creq[w].items, id)
                /\ last' = Result(creq[w].op, "nil")
    /\ creq' = IF db = "process stops" /\ OrderInsertError(creq[w].order) = "nil"
               THEN [v \in Workers |-> Idle]
               ELSE [creq EXCEPT ![w] = Idle]
    /\ UNCHANGED <<clock, payments, cartPool, products, customizations, authVars, ureq>>

\* the rest of CreateOrder / CreateGuestOrder: orderRepo.Create, the INSERT of the
\* order and the INSERT of its items inside one db.Transaction. An error of either
\* INSERT is returned and rolls the transaction back; a process that stops after
\* the first INSERT never commits, and every request in flight ends with it.
CreateOrderCommit(w, db) ==
    /\ creq[w].pc = "numbered"
    /\ LET err == OrderInsertError(creq[w].order)
           id == Len(orders) + 1
       IN  IF err # "nil"
           THEN /\ last' = Result(creq[w].op, err)
                /\ UNCHANGED <<orders, order_items>>
           ELSE IF db = "process stops"
           THEN /\ last' = Result(creq[w].op, "stopped")
                /\ UNCHANGED <<orders, order_items>>
           ELSE IF db = "items insert fails" /\ Len(creq[w].items) > 0
           THEN /\ last' = Result(creq[w].op, "insert of order items failed")
                /\ UNCHANGED <<orders, order_items>>
           ELSE /\ orders' = Append(orders, OrderRow(creq[w].order, id))
                /\ order_items' = order_items \o OrderItemRows(creq[w].items, id)
                /\ last' = Result(creq[w].op, "nil")
    /\ creq' = IF db = "process stops" /\ OrderInsertError(creq[w].order) = "nil"
               THEN [v \in Workers |-> Idle]
               ELSE [creq EXCEPT ![w] = Idle]
    /\ UNCHANGED <<clock, payments, cartPool, products, customizations, authVars, ureq>>

\* orderRepo.Create with a database that answers both INSERTs and commits
CreateOrderPersist(w) == CreateOrderCommit(w, "ok")

\* an update that writes the status first and validates afterwards
UpdateOrderStatus_WriteFirst(orderUUID, status) ==
    /\ LET order == OrderFindByUUID(orderUUID)
       IN  IF ~order.found
           THEN /\ last' = Result("UpdateOrderStatus", "ErrOrderNotFound")
                /\ UNCHANGED orders
           ELSE /\ orders' = UpdateStatus(orders, order.row.ID, status)
                /\ last' = Result("UpdateOrderStatus",
                                  IF isValidStatusTransition(order.row.Status, status)
                                  THEN "nil" ELSE "ErrInvalidStatusTransition")
    /\ UNCHANGED <<clock, order_items, payments, creq, cartPool, products, customizations, authVars, ureq>>

\* UpdateOrderStatus: FindByUUID, isValidStatusTransition, orderRepo.UpdateStatus,
\* taken as one step (no other call runs between its read and its write)
UpdateOrderStatus(orderUUID, status) ==
    /\ LET order == OrderFindByUUID(orderUUID)
       IN  IF ~order.found
           THEN /\ last' = Result("UpdateOrderStatus", "ErrOrderNotFound")
                /\ UNCHANGED orders
           ELSE IF ~isValidStatusTransition(order.row.Status, status)
           THEN /\ last' = Result("UpdateOrderStatus", "ErrInvalidStatusTransition")
                /\ UNCHANGED orders
           ELSE /\ orders' = UpdateStatus(orders, order.row.ID, status)
                /\ last' = Result("UpdateOrderStatus", "nil")
    /\ UNCHANGED <<clock, order_items, payments, creq, cartPool, products, customizations, authVars, ureq>>

\* UpdateOrderStatus up to its write: FindByUUID and isValidStatusTransition.  The
\* call holds no lock and no transaction between this read and its write
UpdateOrderStatusRead(w, orderUUID, status) ==
    /\ ureq[w].pc = "idle"
    /\ LET order == OrderFindByUUID(orderUUID)
       IN  IF ~order.found
           THEN /\ last' = Result("UpdateOrderStatus", "ErrOrderNotFound")
                /\ UNCHANGED ureq
           ELSE IF ~isValidStatusTransition(order.row.Status, status)
           THEN /\ last' = Result("UpdateOrderStatus", "ErrInvalidStatusTransition")
                /\ UNCHANGED ureq
           ELSE /\ ureq' = [ureq EXCEPT ![w] = [pc |-> "validated", order |-> order.row.ID,
                                                 status |-> status]]
                /\ last' = Result("UpdateOrderStatus", "running")
    /\ UNCHANGED <<clock, orders, order_items, payments, creq, cartPool, products,
                   customizations, authVars>>

\* the rest of UpdateOrderStatus: orderRepo.UpdateStatus (UPDATE ... WHERE id = ?)
\* and the answer
UpdateOrderStatusWrite(w) ==
    /\ ureq[w].pc = "validated"
    /\ orders' = UpdateStatus(orders, ureq[w].order, ureq[w].status)
    /\ ureq' = [ureq EXCEPT ![w] = Idle]
    /\ last' = Result("UpdateOrderStatus", "nil")
    /\ UNCHANGED <<clock, order_items, payments, creq, cartPool, products,
                   customizations, authVars>>

----------------------------------------------------------------------------
(* productService *)

Str_MatchaLatteXL == <<"M", "a", "t", "c", "h", "a", " ", "X", "L">>

\* the fields of UpdateProductRequest the model follows; a nil pointer leaves the
\* field as it is
UpdateProductRequest(name, basePrice, isAvailable) ==
    [Name |-> name, BasePrice |-> basePrice, IsAvailable |-> isAvailable]

\* a product update that also rewrites the name on the order items of the product
ProductServiceUpdate_RenamesItems(productUUID, req) ==
    /\ LET product == ProductFindByUUID(productUUID)
           op == "UpdateProduct"
       IN  IF ~product.found
           THEN /\ last' = Result(op, "ErrProductNotFound")
                /\ UNCHANGED <<products, order_items>>
           ELSE /\ products' = [products EXCEPT ![product.row.ID] =
                       [@ EXCEPT
                           !.Name = IF req.Name # Nil THEN req.Name[1] ELSE @,
                           !.BasePrice = IF req.BasePrice # Nil THEN req.BasePrice[1] ELSE @,
                           !.IsAvailable = IF req.IsAvailable # Nil
                                           THEN req.IsAvailable[1] ELSE @]]
                /\ order_items' = [i \in 1..Len(order_items) |->
                       IF order_items[i].ProductID = product.row.ID /\ req.Name # Nil
                       THEN [order_items[i] EXCEPT !.ProductName = req.Name[1]]
                       ELSE order_items[i]]
                /\ last' = Result(op, "nil")
    /\ UNCHANGED <<clock, orders, payments, creq, cartPool, customizations, authVars, ureq>>

\* productService.Update: FindByUUID, the fields the request carries, db.Save.
\* Save writes the products row; the preloaded customizations are upserted with
\* the values just read, the preloaded category is left alone
ProductServiceUpdate(productUUID, req) ==
    /\ LET product == ProductFindByUUID(productUUID)
           op == "UpdateProduct"
       IN  IF ~product.found
           THEN /\ last' = Result(op, "ErrProductNotFound")
                /\ UNCHANGED products
           ELSE /\ products' = [products EXCEPT ![product.row.ID] =
                       [@ EXCEPT
                           !.Name = IF req.Name # Nil THEN req.Name[1] ELSE @,
                           !.BasePrice = IF req.BasePrice # Nil THEN req.BasePrice[1] ELSE @,
                           !.IsAvailable = IF req.IsAvailable # Nil
                                           THEN req.IsAvailable[1] ELSE @]]
                /\ last' = Result(op, "nil")
    /\ UNCHANGED order_items
    /\ UNCHANGED <<clock, orders, payments, creq, cartPool, customizations, authVars, ureq>>

\* productService.SoftDelete: FindByUUID, UPDATE products SET deleted_at = now
SoftDelete(productUUID) ==
    /\ LET product == ProductFindByUUID(productUUID)
       IN  IF ~product.found
           THEN /\ last' = Result("SoftDelete", "ErrProductNotFound")
                /\ UNCHANGED products
           ELSE /\ products' = [products EXCEPT ![product.row.ID].Deleted = TRUE]
                /\ last' = Result("SoftDelete", "nil")
    /\ UNCHANGED <<clock, orders, order_items, payments, creq, cartPool, customizations,
                   authVars, ureq>>

\* productService.Restore: FindByUUIDIncludingDeleted, UPDATE products SET deleted_at = NULL
Restore(productUUID) ==
    /\ IF productUUID \notin 1..Len(products)
       THEN /\ last' = Result("Restore", "ErrProductNotFound")
            /\ UNCHANGED products
       ELSE IF ~products[productUUID].Deleted
       THEN /\ last' = Result("Restore", "product is not deleted")
            /\ UNCHANGED products
       ELSE /\ products' = [products EXCEPT ![productUUID].Deleted = FALSE]
            /\ last' = Result("Restore", "nil")
    /\ UNCHANGED <<clock, orders, order_items, payments, creq, cartPool, customizations,
                   authVars, ureq>>

\* productService.UpdateCustomization with a new price modifier
UpdateCustomization(customizationUUID, priceModifier) ==
    /\ LET customization == FindCustomizationByUUID(customizationUUID)
       IN  IF ~customization.found
           THEN /\ last' = Result("UpdateCustomization", "customization not found")
                /\ UNCHANGED customizations
           ELSE /\ customizations' = [customizations EXCEPT
                       ![customization.row.ID].PriceModifier = priceModifier]
                /\ last' = Result("UpdateCustomization", "nil")
    /\ UNCHANGED <<clock, orders, order_items, payments, creq, cartPool, products, authVars, ureq>>

\* productService.DeleteCustomization: DELETE FROM product_customizations WHERE id = ?
DeleteCustomization(customizationUUID) ==
    /\ LET customization == FindCustomizationByUUID(customizationUUID)
       IN  IF ~customization.found
           THEN /\ last' = Result("DeleteCustomization", "customization not found")
                /\ UNCHANGED customizations
           ELSE /\ customizations' = [customizations EXCEPT
                       ![customization.row.ID].Deleted = TRUE]
                /\ last' = Result("DeleteCustomization", "nil")
    /\ UNCHANGED <<clock, orders, order_items, payments, creq, cartPool, products, authVars, ureq>>

----------------------------------------------------------------------------
(* OrderHandler *)

\* the status OrderHandler.CreateOrder / CreateGuestOrder answers with for what the
\* service returned: errors.Is against the service's sentinel errors, 500 for the rest
CreateOrderStatus(err) ==
    IF err = "nil" THEN 201
    ELSE IF err \in {"ErrProductNotAvailable", "ErrProductNotCustomizable",
                     "ErrInvalidCustomization", "ErrUserNotFound"}
    THEN 400
    ELSE 500

\* toOrderResponse: the user summary of the response
ResponseUser(orderUser, includeUser) ==
    IF includeUser /\ orderUser # Nil THEN orderUser ELSE Nil

\* orderService.GetByUUID: orderRepo.FindByUUID preloads Items and Items.Product, so
\* order.User is nil; toOrderResponse(order, false)
GetByUUID(orderUUID) ==
    LET order == OrderFindByUUID(orderUUID)
    IN  IF ~order.found THEN [err |-> "ErrOrderNotFound"]
        ELSE [err |-> "nil", ID |-> order.row.ID, User |-> ResponseUser(Nil, FALSE)]

\* the status OrderHandler.GetOrder answers with
GetOrderStatus(role, userUUID, orderUUID) ==
    LET order == GetByUUID(orderUUID)
    IN  IF order.err # "nil" THEN 404
        ELSE IF role = RoleMember /\ (order.User = Nil \/ order.User[1] # userUUID) THEN 403
        ELSE 200

\* OrderHandler.GetOrder called with the role and user of the access token
GetOrder(role, userUUID, orderUUID) ==
    /\ last' = [op |-> "GetOrder", err |-> "nil",
                status |-> GetOrderStatus(role, userUUID, orderUUID)]
    /\ UNCHANGED <<clock, orders, order_items, payments, creq, cartPool, products,
                   customizations, authVars, ureq>>

----------------------------------------------------------------------------
(* paymentService *)

TransactionStatusPending == "pending"
TransactionStatusSettlement == "settlement"
TransactionStatusExpire == "expire"
TransactionStatusCancel == "cancel"
TransactionStatusDeny == "deny"
TransactionStatusRefund == "refund"

\* the server key of the configuration
ServerKey == <<"S", "B", "-", "k", "e", "y">>

\* SHA-512, hex encoded: a collision-free digest of its input
Sha512Hex(input) == <<"sha512", input>>

\* strconv.ParseFloat on [sign] digits [. digits], the value in mills;
\* anything else is a syntax error
ParseFloat(s) ==
    LET signed == s # <<>> /\ s[1] \in {"+", "-"}
        body == IF signed THEN Tail(s) ELSE s
        parts == Split(body, ".")
        int == parts[1]
        frac == IF Len(parts) = 2 THEN parts[2] ELSE <<>>
        wellFormed == /\ Len(parts) <= 2
                      /\ int \o frac # <<>>
                      /\ \A i \in 1..Len(int) : IsDigit(int[i])
                      /\ \A i \in 1..Len(frac) : IsDigit(frac[i])
                      /\ Len(frac) <= 3
        mills == DigitsVal(int) * 1000 + DigitsVal(SubSeq(frac \o <<"0", "0", "0">>, 1, 3))
    IN  IF wellFormed
        THEN [ok |-> TRUE, val |-> IF signed /\ s[1] = "-" THEN 0 - mills ELSE mills]
        ELSE [ok |-> FALSE, val |-> 0]

\* int64(x): truncation toward zero to a whole rupiah
Int64(x) == IF x < 0 THEN 0 - (((0 - x) \div 1000) * 1000) ELSE (x \div 1000) * 1000

\* time.Parse("2006-01-02 15:04:05", s)
Str_Time == "2026-01-09 10:00:00"
TimeParse(s) == IF s = Str_Time THEN [ok |-> TRUE, val |-> <<"at", s>>] ELSE [ok |-> FALSE]

\* paymentRepository.FindByMidtransOrderID
FindByMidtransOrderID(midtransOrderID) ==
    IF \E i \in 1..Len(payments) : payments[i].MidtransOrderID = midtransOrderID
    THEN [found |-> TRUE,
          row |-> payments[CHOOSE i \in 1..Len(payments) : payments[i].MidtransOrderID = midtransOrderID]]
    ELSE NotFound

\* paymentRepository.FindByOrderID
FindByOrderID(orderID) == {i \in 1..Len(payments) : payments[i].OrderID = orderID}

\* fmt.Sprintf("%s-%d", order.OrderNumber, time.Now().Unix())
MidtransOrderID(order) == order.OrderNumber \o <<"-">> \o Itoa(Unix(clock))

\* TransactionDetails.GrossAmt of the Snap request: int64(order.Total)
GrossAmt(order) == Int64(order.Total)

\* the Payment built by CreatePaymentToken as the payments table stores it
NewPayment(order, id) ==
    [ID |-> id,
     OrderID |-> order.ID,
     MidtransOrderID |-> MidtransOrderID(order),
     GrossAmount |-> Decimal2(order.Total),
     TransactionID |-> Nil,
     TransactionStatus |-> Nil,
     PaymentType |-> Nil,
     TransactionTime |-> Nil,
     SettlementTime |-> Nil,
     StatusMessage |-> Nil,
     FraudStatus |-> Nil,
     PaymentMetadata |-> Nil]

\* a CreatePaymentToken that asks the gateway before it looks at the order status
CreatePaymentToken_GatewayFirst(orderUUID, gateway) ==
    /\ Len(payments) < MaxPayments
    /\ LET order == OrderFindByUUID(orderUUID)
           op == "CreatePaymentToken"
       IN  IF ~order.found
           THEN /\ last' = Result(op, "ErrOrderNotFound")
                /\ UNCHANGED payments
           ELSE IF gateway # "ok"
           THEN /\ last' = Result(op, "failed to create payment")
                /\ UNCHANGED payments
           ELSE IF order.row.Status # OrderStatusPending
           THEN /\ last' = Result(op, "order must be in pending status to create payment")
                /\ UNCHANGED payments
           ELSE IF FindByMidtransOrderID(MidtransOrderID(order.row)).found
           THEN /\ last' = Result(op, "failed to save payment")
                /\ UNCHANGED payments
           ELSE /\ payments' = Append(payments, NewPayment(order.row, Len(payments) + 1))
                /\ last' = Result(op, "nil")
    /\ UNCHANGED <<clock, orders, order_items, creq, cartPool, products, customizations, authVars, ureq>>

\* CreatePaymentToken; gateway is what snapClient.CreateTransaction answers
CreatePaymentToken(orderUUID, gateway) ==
    /\ Len(payments) < MaxPayments
    /\ LET order == OrderFindByUUID(orderUUID)
           op == "CreatePaymentToken"
       IN  IF ~order.found
           THEN /\ last' = Result(op, "ErrOrderNotFound")
                /\ UNCHANGED payments
           ELSE IF order.row.Status # OrderStatusPending
           THEN /\ last' = Result(op, "order must be in pending status to create payment")
                /\ UNCHANGED payments
           ELSE IF \E i \in FindByOrderID(order.row.ID) :
                      payments[i].TransactionStatus = Some(TransactionStatusSettlement)
           THEN /\ last' = Result(op, "ErrPaymentAlreadyExists")
                /\ UNCHANGED payments
           ELSE IF gateway # "ok"
           THEN /\ last' = Result(op, "failed to create payment")
                /\ UNCHANGED payments
           ELSE IF FindByMidtransOrderID(MidtransOrderID(order.row)).found
           THEN /\ last' = Result(op, "failed to save payment")
                /\ UNCHANGED payments
           ELSE /\ payments' = Append(payments, NewPayment(order.row, Len(payments) + 1))
                /\ last' = Result(op, "nil")
    /\ UNCHANGED <<clock, orders, order_items, creq, cartPool, products, customizations, authVars, ureq>>

\* VerifySignature
\* a verification that never looks at the server key
VerifySignature_AnyKey(orderID, statusCode, grossAmount, signatureKey) ==
    HasPrefix(signatureKey[2], orderID \o statusCode \o grossAmount)

VerifySignature(orderID, statusCode, grossAmount, signatureKey) ==
    Sha512Hex(orderID \o statusCode \o grossAmount \o ServerKey) = signatureKey

\* an amount check that compares whole rupiah only
AmountMatches_Whole(grossAmountStr, payment) ==
    LET grossAmount == ParseFloat(grossAmountStr)
    IN  grossAmount.ok /\ grossAmount.val \div 1000 = payment.GrossAmount \div 1000

\* the amount check: ParseFloat of the notification's gross amount, compared with ==
AmountMatches(grossAmountStr, payment) ==
    LET grossAmount == ParseFloat(grossAmountStr)
    IN  grossAmount.ok /\ grossAmount.val = payment.GrossAmount

\* the Payment after the notification's data is copied onto it
ApplyNotification(payment, notification) ==
    LET transactionTime == TimeParse(notification.TransactionTime)
        settlementTime == IF notification.SettlementTime # Nil
                          THEN TimeParse(notification.SettlementTime[1])
                          ELSE [ok |-> FALSE]
    IN  [payment EXCEPT
            !.TransactionID = Some(notification.TransactionID),
            !.TransactionStatus = Some(notification.TransactionStatus),
            !.PaymentType = Some(notification.PaymentType),
            !.TransactionTime = IF transactionTime.ok THEN Some(transactionTime.val)
                                ELSE Some(<<"now", Unix(clock)>>),
            !.StatusMessage = Some(notification.StatusMessage),
            !.FraudStatus = Some(notification.FraudStatus),
            !.SettlementTime = IF settlementTime.ok THEN Some(settlementTime.val) ELSE @,
            !.PaymentMetadata = Some(notification)]

\* a switch in which a pending payment already moves the order to preparing
NewOrderStatus_PendingPrepares(transactionStatus) ==
    IF transactionStatus \in {TransactionStatusSettlement, TransactionStatusPending}
    THEN Some(OrderStatusPreparing)
    ELSE IF transactionStatus \in {TransactionStatusExpire, TransactionStatusCancel,
                                   TransactionStatusDeny}
    THEN Some(OrderStatusCancelled)
    ELSE Nil

\* the switch on the transaction status: the order status to write, if any
NewOrderStatus(transactionStatus) ==
    IF transactionStatus = TransactionStatusSettlement THEN Some(OrderStatusPreparing)
    ELSE IF transactionStatus = TransactionStatusPending THEN Nil
    ELSE IF transactionStatus \in {TransactionStatusExpire, TransactionStatusCancel,
                                   TransactionStatusDeny}
    THEN Some(OrderStatusCancelled)
    ELSE Nil

\* a handler that sends the order through the strict lifecycle check
ProcessWebhook_Strict(notification, db) ==
    /\ LET op == "ProcessWebhookNotification"
           payment == FindByMidtransOrderID(notification.OrderID)
           newOrderStatus == NewOrderStatus(notification.TransactionStatus)
       IN  IF ~VerifySignature(notification.OrderID, notification.StatusCode,
                               notification.GrossAmount, notification.SignatureKey)
           THEN /\ last' = Result(op, "ErrInvalidSignature")
                /\ UNCHANGED <<orders, payments>>
           ELSE IF ~payment.found
           THEN /\ last' = Result(op, "ErrPaymentNotFound")
                /\ UNCHANGED <<orders, payments>>
           ELSE IF ~AmountMatches(notification.GrossAmount, payment.row)
           THEN /\ last' = Result(op, "ErrInvalidAmount")
                /\ UNCHANGED <<orders, payments>>
           ELSE /\ payments' = [payments EXCEPT ![payment.row.ID] =
                                    ApplyNotification(payment.row, notification)]
                /\ IF newOrderStatus # Nil
                      /\ ~isValidStatusTransition(orders[payment.row.OrderID].Status,
                                                  newOrderStatus[1])
                   THEN /\ last' = Result(op, "failed to update order status")
                        /\ UNCHANGED orders
                   ELSE /\ orders' = IF newOrderStatus # Nil
                                     THEN UpdateStatus(orders, payment.row.OrderID,
                                                       newOrderStatus[1])
                                     ELSE orders
                        /\ last' = Result(op, "nil")
    /\ UNCHANGED <<clock, order_items, creq, cartPool, products, customizations, authVars, ureq>>

\* a handler that undoes the payment update when the order update fails
ProcessWebhook_RollBack(notification, db) ==
    /\ LET op == "ProcessWebhookNotification"
           payment == FindByMidtransOrderID(notification.OrderID)
           newOrderStatus == NewOrderStatus(notification.TransactionStatus)
       IN  IF ~VerifySignature(notification.OrderID, notification.StatusCode,
                               notification.GrossAmount, notification.SignatureKey)
           THEN /\ last' = Result(op, "ErrInvalidSignature")
                /\ UNCHANGED <<orders, payments>>
           ELSE IF ~payment.found
           THEN /\ last' = Result(op, "ErrPaymentNotFound")
                /\ UNCHANGED <<orders, payments>>
           ELSE IF ~AmountMatches(notification.GrossAmount, payment.row)
           THEN /\ last' = Result(op, "ErrInvalidAmount")
                /\ UNCHANGED <<orders, payments>>
           ELSE IF db = "payment update fails"
           THEN /\ last' = Result(op, "failed to update payment")
                /\ UNCHANGED <<orders, payments>>
           ELSE IF newOrderStatus # Nil /\ db = "order update fails"
           THEN /\ last' = Result(op, "failed to update order status")
                /\ UNCHANGED <<orders, payments>>
           ELSE /\ payments' = [payments EXCEPT ![payment.row.ID] =
                                    ApplyNotification(payment.row, notification)]
                /\ orders' = IF newOrderStatus # Nil
                             THEN UpdateStatus(orders, payment.row.OrderID, newOrderStatus[1])
                             ELSE orders
                /\ last' = Result(op, "nil")
    /\ UNCHANGED <<clock, order_items, creq, cartPool, products, customizations, authVars, ureq>>

\* ProcessWebhookNotification; db is what the database answers to the two writes:
\* "ok", "payment update fails" (paymentRepo.Update) or "order update fails"
\* (orderRepo.UpdateStatus)
ProcessWebhook(notification, db) ==
    /\ LET op == "ProcessWebhookNotification"
           payment == FindByMidtransOrderID(notification.OrderID)
           newOrderStatus == NewOrderStatus(notification.TransactionStatus)
       IN  IF ~VerifySignature(notification.OrderID, notification.StatusCode,
                               notification.GrossAmount, notification.SignatureKey)
           THEN /\ last' = Result(op, "ErrInvalidSignature")
                /\ UNCHANGED <<orders, payments>>
           ELSE IF ~payment.found
           THEN /\ last' = Result(op, "ErrPaymentNotFound")
                /\ UNCHANGED <<orders, payments>>
           ELSE IF ~AmountMatches(notification.GrossAmount, payment.row)
           THEN /\ last' = Result(op, "ErrInvalidAmount")
                /\ UNCHANGED <<orders, payments>>
           ELSE IF db = "payment update fails"
           THEN /\ last' = Result(op, "failed to update payment")
                /\ UNCHANGED <<orders, payments>>
           ELSE /\ payments' = [payments EXCEPT ![payment.row.ID] =
                                    ApplyNotification(payment.row, notification)]
                /\ IF newOrderStatus # Nil /\ db = "order update fails"
                   THEN /\ last' = Result(op, "failed to update order status")
                        /\ UNCHANGED orders
                   ELSE /\ orders' = IF newOrderStatus # Nil
                                     THEN UpdateStatus(orders, payment.row.OrderID,
                                                       newOrderStatus[1])
                                     ELSE orders
                        /\ last' = Result(op, "nil")
    /\ UNCHANGED <<clock, order_items, creq, cartPool, products, customizations, authVars, ureq>>

\* ProcessWebhookNotification with a database that answers every write
ProcessWebhookNotification(notification) == ProcessWebhook(notification, "ok")

----------------------------------------------------------------------------
(* The notifications the gateway, or somebody else, delivers *)

\* "%d.%02d" of an amount of whole cents: the gateway's gross_amount
FormatAmount(x) == Itoa(x \div 1000) \o <<".">> \o PadLeft(Itoa((x % 1000) \div 10), 2)

Str_200 == <<"2", "0", "0">>
Str_Unknown == <<"M", "C", "-", "x">>
Str_NotANumber == <<"a", "b", "c">>
WrongKey == <<"b", "a", "d">>

TransactionStatuses == {TransactionStatusPending, TransactionStatusSettlement,
                        TransactionStatusExpire, TransactionStatusCancel,
                        TransactionStatusDeny, TransactionStatusRefund}

Notification(orderID, grossAmount, signedAmount, key, status) ==
    [OrderID |-> orderID,
     StatusCode |-> Str_200,
     GrossAmount |-> grossAmount,
     SignatureKey |-> Sha512Hex(orderID \o Str_200 \o signedAmount \o key),
     TransactionStatus |-> status,
     TransactionID |-> "tx-1",
     PaymentType |-> "qris",
     TransactionTime |-> Str_Time,
     SettlementTime |-> Nil,
     StatusMessage |-> "midtrans payment notification",
     FraudStatus |-> "accept"]

\* for the payment p: genuine notifications in every transaction status, the same
\* with the amount written without decimals, with the amount the gateway was
\* asked to charge, a wrong and an unreadable amount
\* under a good signature, and forged ones (wrong key, amount changed after signing)
NotificationsFor(p) ==
    LET id == p.MidtransOrderID
        amount == FormatAmount(p.GrossAmount)
        whole == Itoa(p.GrossAmount \div 1000)
        other == FormatAmount(p.GrossAmount + Rp(1))
        charged == FormatAmount(GrossAmt(orders[p.OrderID]))
    IN  {Notification(id, amount, amount, ServerKey, st) : st \in TransactionStatuses}
        \cup {Notification(id, g, g, ServerKey, TransactionStatusSettlement) :
                 g \in {whole, other, charged, Str_NotANumber}}
        \cup {Notification(id, amount, amount, WrongKey, st) :
                 st \in {TransactionStatusSettlement, TransactionStatusCancel}}
        \cup {Notification(id, amount, other, ServerKey, TransactionStatusSettlement)}

Notifications ==
    UNION {NotificationsFor(payments[i]) : i \in 1..Len(payments)}
    \cup {Notification(Str_Unknown, FormatAmount(Rp(1)), FormatAmount(Rp(1)), k,
                       TransactionStatusSettlement) : k \in {ServerKey, WrongKey}}

Str_BadTime == "2026-01-09T10:00:00Z"

\* the notifications of the reconciliation specification: for every payment the
\* genuine ones in every transaction status, a genuine settlement whose
\* transaction_time is not in the layout "2006-01-02 15:04:05", and one with
\* another amount
NotificationsWide ==
    UNION { LET id == payments[i].MidtransOrderID
                amount == FormatAmount(payments[i].GrossAmount)
                other == FormatAmount(payments[i].GrossAmount + Rp(1))
            IN  {Notification(id, amount, amount, ServerKey, st) : st \in TransactionStatuses}
                \cup {[Notification(id, amount, amount, ServerKey, TransactionStatusSettlement)
                          EXCEPT !.TransactionTime = Str_BadTime],
                      Notification(id, other, other, ServerKey, TransactionStatusSettlement)}
          : i \in 1..Len(payments) }

----------------------------------------------------------------------------
(* The carts of the lifecycle specification *)

Line(p, q, cs) == [ProductID |-> p, Quantity |-> q, Customizations |-> cs]

MainCarts == { <<Line(1, 2, <<>>)>>, <<Line(2, 1, <<>>)>>, <<Line(3, 1, <<>>)>> }

Init ==
    /\ clock = [day |-> 0, sec |-> 0]
    /\ orders = <<>>
    /\ order_items = <<>>
    /\ payments = <<>>
    /\ creq = [w \in Workers |-> Idle]
    /\ cartPool = MainCarts
    /\ products = Catalog
    /\ customizations = CatalogCustomizations
    /\ users = UserTable
    /\ refresh_tokens = <<>>
    /\ rreq = [w \in Workers |-> Idle]
    /\ responses = {}
    /\ ureq = [w \in Workers |-> Idle]
    /\ last = Result("none", "nil")

\* a second passes
Tick ==
    /\ clock.sec < MaxSec
    /\ clock' = [clock EXCEPT !.sec = @ + 1]
    /\ last' = Result("Tick", "nil")
    /\ UNCHANGED <<orders, order_items, payments, creq, cartPool, products, customizations, authVars, ureq>>

\* midnight passes
NextDay ==
    /\ clock.day < MaxDay
    /\ clock' = [day |-> clock.day + 1, sec |-> 0]
    /\ last' = Result("NextDay", "nil")
    /\ UNCHANGED <<orders, order_items, payments, creq, cartPool, products, customizations, authVars, ureq>>

\* The lifecycle of an order and its payments; one request handler creates orders
Next ==
    \/ Tick
    \/ \E user \in {0, UnknownID}, items \in cartPool :
          Len(orders) + InFlight < MaxOrders /\ CreateOrderBegin(1, user, items)
    \/ CreateOrderPersist(1)
    \/ \E orderUUID \in (1..Len(orders)) \cup {UnknownID}, status \in OrderStatuses :
          UpdateOrderStatus(orderUUID, status)
    \/ \E orderUUID \in (1..Len(orders)) \cup {UnknownID}, gateway \in {"ok", "error"} :
          CreatePaymentToken(orderUUID, gateway)
    \/ \E notification \in Notifications : ProcessWebhookNotification(notification)

Spec == Init /\ [][Next]_vars

\* the carts of the concurrent creations: the main ones and one of two lines
CreateCarts == MainCarts \cup { <<Line(1, 1, <<1>>), Line(2, 2, <<>>)>> }

InitCreate ==
    /\ clock = [day |-> 0, sec |-> 0]
    /\ orders = <<>>
    /\ order_items = <<>>
    /\ payments = <<>>
    /\ creq = [w \in Workers |-> Idle]
    /\ cartPool = CreateCarts
    /\ products = Catalog
    /\ customizations = CatalogCustomizations
    /\ users = UserTable
    /\ refresh_tokens = <<>>
    /\ rreq = [w \in Workers |-> Idle]
    /\ responses = {}
    /\ ureq = [w \in Workers |-> Idle]
    /\ last = Result("none", "nil")

\* Concurrent order creations over several days
NextCreate ==
    \/ NextDay
    \/ \E w \in Workers, user \in {0} \cup Users \cup {UnknownID}, items \in cartPool :
          Len(orders) + InFlight < MaxCreated /\ CreateOrderBegin(w, user, items)
    \/ \E w \in Workers, db \in TxOutcomes : CreateOrderCommit(w, db)

SpecCreate == InitCreate /\ [][NextCreate]_vars

----------------------------------------------------------------------------
(* Pricing: every cart of up to MaxLines lines, one creation per cart *)

CartLines ==
    {Line(1, q, cs) : q \in {1, 2}, cs \in {<<>>, <<1>>, <<2>>, <<1, 2>>, <<3>>, <<UnknownID>>}}
    \cup {Line(2, 1, <<>>), Line(2, 2, <<>>), Line(2, 1, <<3>>)}
    \cup {Line(3, 1, <<>>), Line(UnknownID, 1, <<>>)}
    \cup {Line(1, 1, <<1, 3>>), Line(1, 1, <<UnknownID, 3>>)}

AllCarts == UNION {[1..n -> CartLines] : n \in 1..MaxLines}

InitPricing ==
    /\ clock = [day |-> 0, sec |-> 0]
    /\ orders = <<>>
    /\ order_items = <<>>
    /\ payments = <<>>
    /\ creq = [w \in Workers |-> Idle]
    /\ cartPool \in {{c} : c \in AllCarts}
    /\ products = Catalog
    /\ customizations = CatalogCustomizations
    /\ users = UserTable
    /\ refresh_tokens = <<>>
    /\ rreq = [w \in Workers |-> Idle]
    /\ responses = {}
    /\ ureq = [w \in Workers |-> Idle]
    /\ last = Result("none", "nil")

NextPricing ==
    \/ \E user \in {0} \cup Users, items \in cartPool :
          orders = <<>> /\ InFlight = 0 /\ CreateOrderBegin(1, user, items)
    \/ CreateOrderPersist(1)

SpecPricing == InitPricing /\ [][NextPricing]_vars
\* Payment reconciliation: one order, its payment attempts, notifications delivered
\* and redelivered while the clock runs and the database may refuse a write
InitWebhook ==
    /\ clock = [day |-> 0, sec |-> 0]
    /\ orders = <<>>
    /\ order_items = <<>>
    /\ payments = <<>>
    /\ creq = [w \in Workers |-> Idle]
    /\ cartPool = {<<Line(1, 2, <<>>)>>}
    /\ products = Catalog
    /\ customizations = CatalogCustomizations
    /\ users = UserTable
    /\ refresh_tokens = <<>>
    /\ rreq = [w \in Workers |-> Idle]
    /\ responses = {}
    /\ ureq = [w \in Workers |-> Idle]
    /\ last = Result("none", "nil")

NextWebhook ==
    \/ Tick
    \/ \E items \in cartPool :
          Len(orders) + InFlight < MaxOrders /\ CreateOrderBegin(1, 0, items)
    \/ CreateOrderPersist(1)
    \/ \E orderUUID \in 1..Len(orders), status \in OrderStatuses :
          UpdateOrderStatus(orderUUID, status)
    \/ \E orderUUID \in 1..Len(orders) :
          Len(payments) < MaxAttempts /\ CreatePaymentToken(orderUUID, "ok")
    \/ \E notification \in NotificationsWide,
          db \in {"ok", "payment update fails", "order update fails"} :
          ProcessWebhook(notification, db)

SpecWebhook == InitWebhook /\ [][NextWebhook]_vars

----------------------------------------------------------------------------
(* The catalog changes under an order: one order, catalog edits, reads *)

\* the carts of the catalog specification: a customized line, a line of quantity
\* zero, a line of negative quantity, a product nobody has
CatalogCarts ==
    { <<Line(1, 1, <<1>>)>>, <<Line(1, 0, <<>>)>>, <<Line(1, 0 - 1, <<>>)>>,
      <<Line(UnknownID, 1, <<>>)>> }

\* the product updates of the catalog specification: a new name, a new price
ProductUpdates ==
    { UpdateProductRequest(Some(Str_MatchaLatteXL), Nil, Nil),
      UpdateProductRequest(Nil, Some(Rp(52000)), Nil) }

\* the callers of GetOrder: the member who orders, another member, staff
OrderReaders == {<<RoleMember, 1>>, <<RoleMember, 2>>, <<RoleAdmin, 3>>, <<RoleBarista, 4>>}

InitCatalog ==
    /\ clock = [day |-> 0, sec |-> 0]
    /\ orders = <<>>
    /\ order_items = <<>>
    /\ payments = <<>>
    /\ creq = [w \in Workers |-> Idle]
    /\ cartPool = CatalogCarts
    /\ products = Catalog
    /\ customizations = CatalogCustomizations
    /\ users = UserTable
    /\ refresh_tokens = <<>>
    /\ rreq = [w \in Workers |-> Idle]
    /\ responses = {}
    /\ ureq = [w \in Workers |-> Idle]
    /\ last = Result("none", "nil")

NextCatalog ==
    \/ \E user \in {0} \cup Users, items \in cartPool :
          Len(orders) + InFlight < MaxOrders /\ CreateOrderBegin(1, user, items)
    \/ CreateOrderPersist(1)
    \/ \E req \in ProductUpdates : ProductServiceUpdate(1, req)
    \/ \E productUUID \in {1, UnknownID} : SoftDelete(productUUID)
    \/ \E productUUID \in {1, UnknownID} : Restore(productUUID)
    \/ UpdateCustomization(1, Rp(7000))
    \/ DeleteCustomization(1)
    \/ \E orderUUID \in 1..Len(orders), status \in OrderStatuses :
          UpdateOrderStatus(orderUUID, status)
    \/ \E orderUUID \in 1..Len(orders) :
          Len(payments) < MaxAttempts /\ CreatePaymentToken(orderUUID, "ok")
    \/ \E i \in 1..Len(payments) :
          ProcessWebhookNotification(
              Notification(payments[i].MidtransOrderID, FormatAmount(payments[i].GrossAmount),
                           FormatAmount(payments[i].GrossAmount), ServerKey,
                           TransactionStatusSettlement))
    \/ \E reader \in OrderReaders, orderUUID \in (1..Len(orders)) \cup {UnknownID} :
          GetOrder(reader[1], reader[2], orderUUID)

SpecCatalog == InitCatalog /\ [][NextCatalog]_vars

----------------------------------------------------------------------------
(* JWTUtil, refreshTokenRepository, userRepository, authService *)

\* the error of an insert that breaks a unique index
DuplicateKey == "duplicate key value violates unique constraint"

JWTSecret == "rahasiamatcha"

\* REFRESH_TOKEN_EXPIRY, in seconds: 7 * 24 hours
RefreshTokenExpiry == 7 * 24 * 3600

\* a refresh token is the HS256 signature over its claims: two tokens with the
\* same subject issued in the same second are the same string
GenerateRefreshToken(userUUID, now) ==
    [Subject |-> userUUID, IssuedAt |-> now, NotBefore |-> now,
     ExpiresAt |-> now + RefreshTokenExpiry, Key |-> JWTSecret]

\* a token signed with another key
ForgedToken == [GenerateRefreshToken(1, 0) EXCEPT !.Key = "forged"]

ValidateRefreshToken(tokenString, now) ==
    /\ tokenString.Key = JWTSecret
    /\ now < tokenString.ExpiresAt
    /\ now >= tokenString.NotBefore

\* the row of refresh_tokens built by Login and RefreshToken
RefreshTokenRow(id, userID, token) ==
    [ID |-> id, UserID |-> userID, Token |-> token, ExpiresAt |-> token.ExpiresAt,
     RevokedAt |-> Nil]

IsValid(rt, now) == rt.RevokedAt = Nil /\ rt.ExpiresAt > now

\* the ids of the rows FindValidByToken selects from
FindValidByToken(token, now) ==
    {i \in 1..Len(refresh_tokens) :
        /\ refresh_tokens[i].Token = token
        /\ refresh_tokens[i].RevokedAt = Nil
        /\ refresh_tokens[i].ExpiresAt > now}

\* UPDATE refresh_tokens SET revoked_at = now WHERE token = ?
RevokeToken(tbl, token, now) ==
    [i \in 1..Len(tbl) |->
        IF tbl[i].Token = token THEN [tbl[i] EXCEPT !.RevokedAt = Some(now)] ELSE tbl[i]]

\* the unique index on refresh_tokens.token
TokenStored(tbl, token) == \E i \in 1..Len(tbl) : tbl[i].Token = token

\* userRepository.FindByID and FindByEmail: WHERE ... AND is_active = true
UserFindByID(id) == {i \in 1..Len(users) : users[i].ID = id /\ users[i].IsActive}

\* the AuthResponse a RefreshToken call returns for the token it was given
AuthResponse(token, newRefreshToken) == [Request |-> token, RefreshToken |-> newRefreshToken]

\* the answer of a finished RefreshToken call
RefreshResult(w, token, err) ==
    [op |-> "RefreshToken", err |-> err, worker |-> w, token |-> token]

\* a user row is saved with the given is_active
UserUpdate(id, isActive) ==
    /\ id \in 1..Len(users)
    /\ users' = [users EXCEPT ![id].IsActive = isActive]
    /\ last' = Result("UserUpdate", "nil")
    /\ UNCHANGED <<clock, orders, order_items, payments, creq, cartPool, products,
                   customizations, refresh_tokens, rreq, ureq, responses>>

Login(userID, passwordOK) ==
    /\ LET found == UserFindByID(userID)
           now == Unix(clock)
       IN  IF found = {}
           THEN /\ last' = Result("Login", "ErrInvalidCredentials")
                /\ UNCHANGED refresh_tokens
           ELSE LET user == users[CHOOSE i \in found : TRUE]
                    refreshToken == GenerateRefreshToken(user.ID, now)
                IN  IF ~user.IsActive
                    THEN /\ last' = Result("Login", "ErrUserInactive")
                         /\ UNCHANGED refresh_tokens
                    ELSE IF ~passwordOK
                    THEN /\ last' = Result("Login", "ErrInvalidCredentials")
                         /\ UNCHANGED refresh_tokens
                    ELSE IF TokenStored(refresh_tokens, refreshToken)
                    THEN /\ last' = Result("Login", DuplicateKey)
                         /\ UNCHANGED refresh_tokens
                    ELSE /\ refresh_tokens' =
                               Append(refresh_tokens,
                                      RefreshTokenRow(Len(refresh_tokens) + 1, user.ID,
                                                      refreshToken))
                         /\ last' = Result("Login", "nil")
    /\ UNCHANGED <<clock, orders, order_items, payments, creq, cartPool, products,
                   customizations, users, rreq, ureq, responses>>

\* RefreshToken up to and including FindValidByToken and IsValid
RefreshTokenFind(w, token) ==
    /\ rreq[w].pc = "idle"
    /\ LET now == Unix(clock)
           found == FindValidByToken(token, now)
       IN  IF ~ValidateRefreshToken(token, now) \/ found = {}
           THEN /\ last' = RefreshResult(w, token, "ErrInvalidRefreshToken")
                /\ UNCHANGED rreq
           ELSE LET refreshToken == refresh_tokens[CHOOSE i \in found : TRUE]
                IN  IF ~IsValid(refreshToken, now)
                    THEN /\ last' = RefreshResult(w, token, "ErrInvalidRefreshToken")
                         /\ UNCHANGED rreq
                    ELSE /\ rreq' = [rreq EXCEPT ![w] =
                                        [pc |-> "found", token |-> token,
                                         user |-> refreshToken.UserID]]
                         /\ last' = Result("RefreshToken", "running")
    /\ UNCHANGED <<clock, orders, order_items, payments, creq, cartPool, products,
                   customizations, users, refresh_tokens, ureq, responses>>

\* RefreshToken from userRepo.FindByID to GenerateRefreshToken
RefreshTokenUser(w) ==
    /\ rreq[w].pc = "found"
    /\ LET found == UserFindByID(rreq[w].user)
       IN  IF found = {}
           THEN /\ last' = RefreshResult(w, rreq[w].token, "ErrUserNotFound")
                /\ rreq' = [rreq EXCEPT ![w] = Idle]
           ELSE IF ~users[CHOOSE i \in found : TRUE].IsActive
           THEN /\ last' = RefreshResult(w, rreq[w].token, "ErrUserInactive")
                /\ rreq' = [rreq EXCEPT ![w] = Idle]
           ELSE /\ rreq' = [rreq EXCEPT ![w] =
                               [pc |-> "generated", token |-> rreq[w].token,
                                user |-> rreq[w].user,
                                newRefreshToken |->
                                    GenerateRefreshToken(rreq[w].token.Subject, Unix(clock))]]
                /\ last' = Result("RefreshToken", "running")
    /\ UNCHANGED <<clock, orders, order_items, payments, creq, cartPool, products,
                   customizations, users, refresh_tokens, ureq, responses>>

\* refreshTokenRepo.RevokeToken left out of RefreshToken
RefreshTokenRevoke_KeepsOld(w) ==
    /\ rreq[w].pc = "generated"
    /\ rreq' = [rreq EXCEPT ![w].pc = "revoked"]
    /\ last' = Result("RefreshToken", "running")
    /\ UNCHANGED <<clock, orders, order_items, payments, creq, cartPool, products,
                   customizations, users, refresh_tokens, ureq, responses>>

\* RefreshToken: refreshTokenRepo.RevokeToken(req.RefreshToken)
RefreshTokenRevoke(w) ==
    /\ rreq[w].pc = "generated"
    /\ refresh_tokens' = RevokeToken(refresh_tokens, rreq[w].token, Unix(clock))
    /\ rreq' = [rreq EXCEPT ![w].pc = "revoked"]
    /\ last' = Result("RefreshToken", "running")
    /\ UNCHANGED <<clock, orders, order_items, payments, creq, cartPool, products,
                   customizations, users, ureq, responses>>

\* RefreshToken: refreshTokenRepo.Create of the new token, and the answer
RefreshTokenStore(w) ==
    /\ rreq[w].pc = "revoked"
    /\ IF TokenStored(refresh_tokens, rreq[w].newRefreshToken)
       THEN /\ last' = RefreshResult(w, rreq[w].token, DuplicateKey)
            /\ UNCHANGED <<refresh_tokens, responses>>
       ELSE /\ refresh_tokens' =
                  Append(refresh_tokens,
                         RefreshTokenRow(Len(refresh_tokens) + 1, rreq[w].user,
                                         rreq[w].newRefreshToken))
            /\ responses' = responses \cup {AuthResponse(rreq[w].token,
                                                           rreq[w].newRefreshToken)}
            /\ last' = RefreshResult(w, rreq[w].token, "nil")
    /\ rreq' = [rreq EXCEPT ![w] = Idle]
    /\ UNCHANGED <<clock, orders, order_items, payments, creq, cartPool, products,
                   customizations, users, ureq>>

Logout(token) ==
    /\ IF ~ValidateRefreshToken(token, Unix(clock))
       THEN /\ last' = Result("Logout", "ErrInvalidRefreshToken")
            /\ UNCHANGED refresh_tokens
       ELSE /\ refresh_tokens' = RevokeToken(refresh_tokens, token, Unix(clock))
            /\ last' = Result("Logout", "nil")
    /\ UNCHANGED <<clock, orders, order_items, payments, creq, cartPool, products,
                   customizations, users, rreq, ureq, responses>>

----------------------------------------------------------------------------
(* Sessions: logins, concurrent token refreshes, logouts, users switched off *)

\* the refresh tokens a client can present: the stored ones and a forged one
PresentedTokens == {refresh_tokens[i].Token : i \in 1..Len(refresh_tokens)} \cup {ForgedToken}

\* a session of the member opened a week before second 1 of day 0: its token
\* expires at that second
OldToken == GenerateRefreshToken(1, 1 - RefreshTokenExpiry)

\* the RefreshToken calls that have not answered yet
Refreshing == Cardinality({w \in Workers : rreq[w].pc # "idle"})

InitAuth ==
    /\ clock = [day |-> 0, sec |-> 0]
    /\ orders = <<>>
    /\ order_items = <<>>
    /\ payments = <<>>
    /\ creq = [w \in Workers |-> Idle]
    /\ cartPool = MainCarts
    /\ products = Catalog
    /\ customizations = CatalogCustomizations
    /\ users = UserTable
    /\ refresh_tokens = <<RefreshTokenRow(1, 1, OldToken)>>
    /\ rreq = [w \in Workers |-> Idle]
    /\ responses = {}
    /\ ureq = [w \in Workers |-> Idle]
    /\ last = Result("none", "nil")

NextAuth ==
    \/ Tick
    \/ \E userID \in Users \cup {UnknownID}, passwordOK \in BOOLEAN :
          Len(refresh_tokens) + Refreshing < MaxTokens /\ Login(userID, passwordOK)
    \/ \E w \in Workers, token \in PresentedTokens :
          /\ \/ Len(refresh_tokens) + Refreshing < MaxTokens
             \/ FindValidByToken(token, Unix(clock)) = {}
          /\ RefreshTokenFind(w, token)
    \/ \E w \in Workers : RefreshTokenUser(w)
    \/ \E w \in Workers : RefreshTokenRevoke(w)
    \/ \E w \in Workers : RefreshTokenStore(w)
    \/ \E token \in PresentedTokens : Logout(token)
    \/ \E isActive \in BOOLEAN : UserUpdate(1, isActive)

SpecAuth == InitAuth /\ [][NextAuth]_vars

----------------------------------------------------------------------------
(* Concurrent status updates: two handlers work on one order *)

NextRace ==
    \/ \E items \in {<<Line(1, 2, <<>>)>>} :
          Len(orders) + InFlight < MaxOrders /\ CreateOrderBegin(1, 0, items)
    \/ CreateOrderPersist(1)
    \/ \E w \in Workers, orderUUID \in (1..Len(orders)) \cup {UnknownID},
          status \in OrderStatuses :
          UpdateOrderStatusRead(w, orderUUID, status)
    \/ \E w \in Workers : UpdateOrderStatusWrite(w)

SpecRace == Init /\ [][NextRace]_vars

----------------------------------------------------------------------------
(* A busy day: sequential creations when the day's count approaches 1000 *)

\* the guest order with the given sequence number of day 0, for two Matcha Latte
BusyOrder(id, seq) ==
    [ID |-> id,
     OrderNumber |-> OrderPrefix(0) \o Sprintf03d(seq),
     UserID |-> Nil,
     Status |-> OrderStatusPending,
     OrderSource |-> "guest",
     Subtotal |-> Rp(90000),
     Tax |-> Rp(9000),
     Total |-> Rp(99000),
     CompletedAt |-> Nil,
     CreatedDay |-> 0]

BusyItem(id) ==
    [OrderID |-> id,
     Line |-> 1,
     ProductID |-> 1,
     ProductName |-> Str_MatchaLatte,
     Quantity |-> 2,
     UnitPrice |-> Rp(45000),
     Subtotal |-> Rp(90000),
     Customizations |-> Nil]

\* The orders table late on day 0, after BusyLast creations.  Only the last BusyKept
\* rows are kept in the model: the earlier ones have three-digit numbers below
\* these, so they are neither the greatest number of the day nor equal to a
\* number generated from here on.
InitBusy ==
    /\ clock = [day |-> 0, sec |-> 0]
    /\ orders = [i \in 1..BusyKept |-> BusyOrder(i, BusyLast - BusyKept + i)]
    /\ order_items = [i \in 1..BusyKept |-> BusyItem(i)]
    /\ payments = <<>>
    /\ creq = [w \in Workers |-> Idle]
    /\ cartPool = MainCarts
    /\ products = Catalog
    /\ customizations = CatalogCustomizations
    /\ users = UserTable
    /\ refresh_tokens = <<>>
    /\ rreq = [w \in Workers |-> Idle]
    /\ responses = {}
    /\ ureq = [w \in Workers |-> Idle]
    /\ last = Result("none", "nil")

\* one handler creates orders, one after the other
NextBusy ==
    \/ \E user \in {0} \cup Users, items \in cartPool :
          Len(orders) + InFlight < BusyKept + MaxBusy /\ CreateOrderBegin(1, user, items)
    \/ CreateOrderPersist(1)

SpecBusy == InitBusy /\ [][NextBusy]_vars

----------------------------------------------------------------------------
(* Claims about the order lifecycle *)

\* the lifecycle graph of the specification
LifecycleEdges ==
    { <<"pending", "preparing">>, <<"pending", "cancelled">>,
      <<"preparing", "ready">>, <<"ready", "completed">> }

OrderIDs == 1..Len(orders)

\* C1: once an order's persisted status is completed or cancelled, no step of the
\* system changes that status again.
C1_TerminalStatusNeverChanges ==
    [][\A i \in OrderIDs :
          orders[i].Status \in {"completed", "cancelled"} => orders'[i].Status = orders[i].Status]_vars

\* C2: UpdateOrderStatus succeeds exactly on the four edges of the lifecycle graph
\* and then persists the target; on an existing order every other request (a skip,
\* same -> same, anything out of completed or cancelled) is ErrInvalidStatusTransition.
C2_UpdateSucceedsIffEdge ==
    [][\A id \in OrderIDs \cup {UnknownID}, target \in OrderStatuses :
          UpdateOrderStatus(id, target) =>
             /\ (last'.err = "nil") <=> (id \in OrderIDs /\ <<orders[id].Status, target>> \in LifecycleEdges)
             /\ (last'.err = "nil") => orders'[id].Status = target
             /\ (id \in OrderIDs /\ last'.err # "nil") => last'.err = "ErrInvalidStatusTransition"]_vars

\* C2 witness: the chain pending -> preparing -> ready -> completed has been walked
C2_Witness ==
    /\ last = Result("UpdateOrderStatus", "nil")
    /\ \E i \in OrderIDs : orders[i].Status = "completed"

\* C3: a call of UpdateOrderStatus that returns ErrInvalidStatusTransition or
\* ErrOrderNotFound leaves every table as it was.
C3_RejectedUpdateMutatesNothing ==
    [][(last'.op = "UpdateOrderStatus"
        /\ last'.err \in {"ErrInvalidStatusTransition", "ErrOrderNotFound"})
       => UNCHANGED <<orders, order_items, payments>>]_vars

\* C3 witness: a transition request was refused on a completed order (scenario C)
C3_Witness ==
    /\ last = Result("UpdateOrderStatus", "ErrInvalidStatusTransition")
    /\ \E i \in OrderIDs : orders[i].Status = "completed"

\* C4: an order has a completion timestamp if and only if its status is completed.
C4_CompletedAtIffCompleted ==
    \A i \in OrderIDs : (orders[i].CompletedAt # Nil) <=> (orders[i].Status = "completed")

----------------------------------------------------------------------------
(* Claims about payment notifications *)

PaymentIDs == 1..Len(payments)

\* the signature the gateway computes for a notification
ExpectedSignature(n) == Sha512Hex(n.OrderID \o n.StatusCode \o n.GrossAmount \o ServerKey)

\* C9: a notification whose signature key differs from SHA-512(order_id +
\* status_code + gross_amount + server key) fails with ErrInvalidSignature, also
\* when no payment has its order id (the check precedes the lookup), and leaves
\* every Payment and every Order unchanged.
C9_BadSignatureRejected ==
    [][\A n \in Notifications :
          (n.SignatureKey # ExpectedSignature(n) /\ ProcessWebhookNotification(n)) =>
             /\ last'.err = "ErrInvalidSignature"
             /\ UNCHANGED <<orders, order_items, payments>>]_vars

\* C9 witness: a forged notification for a stored payment has just been refused
C9_Witness ==
    /\ last = Result("ProcessWebhookNotification", "ErrInvalidSignature")
    /\ \E i \in PaymentIDs : payments[i].TransactionStatus = Nil

\* C10: a correctly signed notification for an existing Payment whose gross amount
\* is not exactly the Payment's stored gross amount fails with ErrInvalidAmount and
\* leaves Payment and Order unchanged; the stored gross amount is the order's total
\* and no step changes it.
C10_WrongAmountRejected ==
    [][/\ last'.op = "ProcessWebhookNotification" =>
            \A n \in Notifications, i \in PaymentIDs :
               ( /\ n.SignatureKey = ExpectedSignature(n)
                 /\ payments[i].MidtransOrderID = n.OrderID
                 /\ LET grossAmount == ParseFloat(n.GrossAmount)
                    IN  ~(grossAmount.ok /\ grossAmount.val = payments[i].GrossAmount)
                 /\ ProcessWebhookNotification(n) )
               => /\ last'.err = "ErrInvalidAmount"
                  /\ UNCHANGED <<orders, order_items, payments>>
       /\ \A i \in PaymentIDs : payments'[i].GrossAmount = payments[i].GrossAmount
       /\ \A i \in 1..Len(payments') :
            payments'[i].GrossAmount = orders'[payments'[i].OrderID].Total]_vars

\* C10 witness: a well-signed notification with another amount has just been refused
C10_Witness ==
    /\ last = Result("ProcessWebhookNotification", "ErrInvalidAmount")
    /\ \E i \in PaymentIDs : payments[i].TransactionStatus = Nil

----------------------------------------------------------------------------
(* Claims about order numbers *)

\* the part of an order number after "MC-<date>-"
SequencePart(orderNumber, day) == SubSeq(orderNumber, Len(OrderPrefix(day)) + 1, Len(orderNumber))

\* s is MC-<YYMMDD of day>-<sequence>, the sequence being three digits or more
HasOrderNumberForm(s, day) ==
    /\ HasPrefix(s, OrderPrefix(day))
    /\ AllDigits(SequencePart(s, day))
    /\ Len(SequencePart(s, day)) >= 3

\* no two persisted orders have the same order number
UniqueOrderNumbers ==
    \A i, j \in OrderIDs : orders[i].OrderNumber = orders[j].OrderNumber => i = j

\* a creation that ran within one calendar day persists an order whose number
\* carries the date of its creation
PersistedNumberHasForm ==
    \A w \in Workers :
       ( /\ creq[w].pc = "numbered" /\ creq'[w].pc = "idle"
         /\ Len(orders') = Len(orders) + 1
         /\ creq[w].today = clock.day )
       => LET o == orders'[Len(orders')]
          IN  HasOrderNumberForm(o.OrderNumber, o.CreatedDay)

\* C5: whatever the interleaving of concurrent CreateOrder / CreateGuestOrder calls,
\* no two persisted orders have the same order number, and every order persisted by
\* a call on one calendar day has a number MC-<YYMMDD of creation>-<sequence>.
C5_OrderNumbersUniqueAndFormed ==
    []UniqueOrderNumbers /\ [][PersistedNumberHasForm]_vars

\* C5 witness: two creations computed the same number, one is persisted and the
\* constraint is about to refuse the other
C5_Witness ==
    \E w \in Workers, i \in OrderIDs :
       /\ creq[w].pc = "numbered"
       /\ creq[w].order.OrderNumber = orders[i].OrderNumber
       /\ creq[w].today = orders[i].CreatedDay

\* C6: two concurrent creations on the same date never hold the same next sequence
\* number, so neither is refused; on a day without earlier orders they persist
\* MC-YYMMDD-001 and MC-YYMMDD-002.
C6_NoSharedSequence ==
    /\ \A v, w \in Workers :
          (v # w /\ creq[v].pc = "numbered" /\ creq[w].pc = "numbered"
           /\ creq[v].today = creq[w].today)
          => creq[v].order.OrderNumber # creq[w].order.OrderNumber
    /\ last.err # DuplicateKey
    /\ \A i \in OrderIDs :
          Cardinality({j \in OrderIDs : orders[j].CreatedDay = orders[i].CreatedDay}) = 2
          => \E j \in OrderIDs :
                /\ orders[j].CreatedDay = orders[i].CreatedDay
                /\ SequencePart(orders[j].OrderNumber, orders[j].CreatedDay) = <<"0", "0", "2">>

----------------------------------------------------------------------------
(* Claims about pricing *)

\* the creations whose cart was accepted: the order the service has built
Built == {w \in Workers : creq[w].pc = "numbered"}

RECURSIVE SumOf(_, _)
\* the sum of f[i] over the indices in S
SumOf(f, S) ==
    IF S = {} THEN 0
    ELSE LET i == CHOOSE x \in S : TRUE IN f[i] + SumOf(f, S \ {i})

LineSubtotals(w) == [i \in 1..Len(creq[w].items) |-> creq[w].items[i].Subtotal]

ScenarioA == <<Line(1, 2, <<>>)>>

CustomizationOf(id) == CHOOSE c \in {customizations[k] : k \in 1..Len(customizations)} : c.ID = id

\* the price of line i of the cart, from what is selected on that line
LinePrice(cart, i) ==
    products[cart[i].ProductID].BasePrice
    + SumOf([j \in 1..Len(cart[i].Customizations) |->
                CustomizationOf(cart[i].Customizations[j]).PriceModifier],
            1..Len(cart[i].Customizations))

\* C8: on every line of every valid cart the unit price is the product's base price
\* plus the modifiers of the customizations selected on that very line, and the
\* line subtotal is the unit price times the quantity.
C8_LinePricedFromOwnSelections ==
    \A w \in Built :
       \A i \in 1..Len(creq[w].req) :
          /\ creq[w].items[i].UnitPrice = LinePrice(creq[w].req, i)
          /\ creq[w].items[i].Subtotal = creq[w].items[i].UnitPrice * creq[w].req[i].Quantity

----------------------------------------------------------------------------
(* Claims about the effect of notifications on orders and payments *)

\* n passes the signature and the amount verification against payment i
ValidFor(n, i) ==
    /\ n.SignatureKey = ExpectedSignature(n)
    /\ payments[i].MidtransOrderID = n.OrderID
    /\ LET grossAmount == ParseFloat(n.GrossAmount)
       IN  grossAmount.ok /\ grossAmount.val = payments[i].GrossAmount

\* the order status the specification prescribes for a pending order
StatusAfter(transactionStatus) ==
    CASE transactionStatus = "settlement" -> "preparing"
      [] transactionStatus \in {"expire", "cancel", "deny"} -> "cancelled"
      [] OTHER -> "pending"

\* C11: a valid notification on a Payment whose order is pending succeeds and leaves
\* the order preparing on settlement, cancelled on expire, cancel or deny, and
\* pending on pending or any other transaction status.
C11_StatusMapping ==
    [][last'.op = "ProcessWebhookNotification" =>
         \A n \in Notifications, i \in PaymentIDs :
            ( /\ orders[payments[i].OrderID].Status = "pending"
              /\ ValidFor(n, i)
              /\ ProcessWebhookNotification(n) )
            => /\ last'.err = "nil"
               /\ orders'[payments[i].OrderID].Status = StatusAfter(n.TransactionStatus)]_vars

\* C11 witness: a denied payment has just cancelled its pending order
C11_Witness ==
    /\ last = Result("ProcessWebhookNotification", "nil")
    /\ \E i \in PaymentIDs :
          /\ payments[i].TransactionStatus = Some("deny")
          /\ orders[payments[i].OrderID].Status = "cancelled"

----------------------------------------------------------------------------
(* Claims about payment attempts *)

\* the payments of order o that reached settlement
Settled(o) == {i \in PaymentIDs : payments[i].OrderID = o /\ payments[i].TransactionStatus = Some("settlement")}

\* C13: after any sequence of CreatePaymentToken calls and notifications, at most
\* one Payment row of an order has transaction status settlement.
C13_AtMostOneSettled ==
    \A o \in OrderIDs : Cardinality(Settled(o)) <= 1

\* C14: every CreatePaymentToken attempt for a pending order that the gateway
\* accepts gets a gateway-facing order id no earlier attempt has, and its Payment
\* row is persisted, also when two attempts fall in the same clock second.
C14_AttemptNeverCollides ==
    [][\A o \in OrderIDs :
          ( /\ orders[o].Status = "pending"
            /\ Settled(o) = {}
            /\ CreatePaymentToken(o, "ok") )
          => /\ last'.err = "nil"
             /\ Len(payments') = Len(payments) + 1
             /\ \A i \in PaymentIDs :
                   payments[i].MidtransOrderID # payments'[Len(payments')].MidtransOrderID]_vars

\* C15: CreatePaymentToken on an order that is not pending is rejected whatever the
\* gateway would answer and creates no Payment row; on an unknown order it returns
\* ErrOrderNotFound, with the same absence of effects.
C15_TokenNeedsPendingOrder ==
    [][\A o \in OrderIDs \cup {UnknownID}, gateway \in {"ok", "error"} :
          CreatePaymentToken(o, gateway) =>
             /\ o \notin OrderIDs =>
                   /\ last'.err = "ErrOrderNotFound"
                   /\ UNCHANGED <<orders, order_items, payments>>
             /\ (o \in OrderIDs /\ orders[o].Status # "pending") =>
                   /\ last'.err = "order must be in pending status to create payment"
                   /\ UNCHANGED <<orders, order_items, payments>>]_vars

\* C15 witness: a token was refused for an order that is being prepared
C15_Witness ==
    /\ last = Result("CreatePaymentToken", "order must be in pending status to create payment")
    /\ \E o \in OrderIDs : orders[o].Status = "preparing"

----------------------------------------------------------------------------
(* Claims about redelivery and failing writes *)

\* payment i and its order are as a successful processing of n leaves them
AppliedTo(n, i) ==
    /\ payments[i].PaymentMetadata = Some(n)
    /\ payments[i].TransactionStatus = Some(n.TransactionStatus)
    /\ n.TransactionStatus \in {"settlement", "expire", "cancel", "deny"}
          => orders[payments[i].OrderID].Status = StatusAfter(n.TransactionStatus)

\* processing n succeeds and leaves payment i and its order as AppliedTo describes
Applies(n, i) ==
    /\ last'.err = "nil"
    /\ payments'[i].PaymentMetadata = Some(n)
    /\ payments'[i].TransactionStatus = Some(n.TransactionStatus)
    /\ n.TransactionStatus \in {"settlement", "expire", "cancel", "deny"}
          => orders'[payments[i].OrderID].Status = StatusAfter(n.TransactionStatus)

C16_PaymentWriteSurvives ==
    [][last'.op = "ProcessWebhookNotification" =>
         \A i \in PaymentIDs : \A n \in NotificationsWide :
            ( /\ payments[i].MidtransOrderID = n.OrderID
              /\ n.TransactionStatus \in {"settlement", "expire", "cancel", "deny"}
              /\ ValidFor(n, i)
              /\ ProcessWebhook(n, "order update fails") )
            => /\ last'.err = "failed to update order status"
               /\ orders' = orders
               /\ payments'[i].TransactionID = Some(n.TransactionID)
               /\ payments'[i].TransactionStatus = Some(n.TransactionStatus)
               /\ payments'[i].PaymentType = Some(n.PaymentType)
               /\ payments'[i].PaymentMetadata = Some(n)]_vars

\* C16 witness: the order update failed under a cancel notification; the payment is
\* cancelled, the order still pending
C16_Witness ==
    /\ last = Result("ProcessWebhookNotification", "failed to update order status")
    /\ \E i \in PaymentIDs :
          /\ payments[i].TransactionStatus = Some("cancel")
          /\ orders[payments[i].OrderID].Status = "pending"

----------------------------------------------------------------------------
(* Claims about cart validation (SpecPricing) *)

\* the callers of the pricing specification: a guest (0) or an existing user
Callers == {0} \cup Users

\* the product row a line refers to is there and not soft-deleted
ProductExists(line) ==
    line.ProductID \in 1..Len(products) /\ ~products[line.ProductID].Deleted

\* the j-th selection of the line exists and belongs to the line's product
SelectionOwned(line, j) ==
    /\ line.Customizations[j] \in 1..Len(customizations)
    /\ ~customizations[line.Customizations[j]].Deleted
    /\ customizations[line.Customizations[j]].ProductID = products[line.ProductID].ID

\* the j-th selection of the line exists and belongs to another product
SelectionForeign(line, j) ==
    /\ line.Customizations[j] \in 1..Len(customizations)
    /\ ~customizations[line.Customizations[j]].Deleted
    /\ customizations[line.Customizations[j]].ProductID # products[line.ProductID].ID

\* the line passes every check: product present and available, and either no
\* selections or a customizable product with selections of its own
LineValidates(line) ==
    /\ ProductExists(line)
    /\ products[line.ProductID].IsAvailable
    /\ \/ line.Customizations = <<>>
       \/ /\ products[line.ProductID].IsCustomizable
          /\ \A j \in 1..Len(line.Customizations) : SelectionOwned(line, j)

\* line k of the cart names an unavailable product and every earlier line validates
UnavailableAt(items, k) ==
    /\ ProductExists(items[k])
    /\ ~products[items[k].ProductID].IsAvailable
    /\ \A i \in 1..(k - 1) : LineValidates(items[i])

\* nothing of an order exists: no row, no item row, no request holding a number
NothingCreated ==
    /\ orders = <<>>
    /\ order_items = <<>>
    /\ \A w \in Workers : creq[w] = Idle

\* C17: for every cart with a line whose product is unavailable and whose earlier
\* lines all validate, CreateOrder (of an existing user) and CreateGuestOrder fail
\* with ErrProductNotAvailable, and no Order row and no Order Item row is created,
\* then or later.
C17_UnavailableProductRejected ==
    /\ [][\A user \in Callers : \A items \in cartPool :
            ( /\ \E k \in 1..Len(items) : UnavailableAt(items, k)
              /\ CreateOrderBegin(1, user, items) )
            => /\ last'.err = "ErrProductNotAvailable"
               /\ last'.op = (IF user = 0 THEN "CreateGuestOrder" ELSE "CreateOrder")
               /\ UNCHANGED <<orders, order_items, creq>>]_vars
    /\ []((\E items \in cartPool : \E k \in 1..Len(items) : UnavailableAt(items, k))
             => NothingCreated)

\* C17 witness: a cart of two lines, the first valid, the second unavailable, was
\* rejected with ErrProductNotAvailable
C17_Witness ==
    /\ last.err = "ErrProductNotAvailable"
    /\ \E items \in cartPool :
          /\ Len(items) = 2
          /\ LineValidates(items[1])
          /\ UnavailableAt(items, 2)

\* line k has an available, customizable product and a selection of another product
ForeignAt(items, k) ==
    /\ ProductExists(items[k])
    /\ products[items[k].ProductID].IsAvailable
    /\ products[items[k].ProductID].IsCustomizable
    /\ \E j \in 1..Len(items[k].Customizations) : SelectionForeign(items[k], j)

\* C18 as stated: for every cart with a line that selects a customization of
\* another product (the line's product being available and customizable),
\* CreateOrder and CreateGuestOrder fail with ErrInvalidCustomization.
C18_ForeignCustomizationRejected ==
    [][\A user \in Callers : \A items \in cartPool :
          ( /\ \E k \in 1..Len(items) : ForeignAt(items, k)
            /\ CreateOrderBegin(1, user, items) )
          => last'.err = "ErrInvalidCustomization"]_vars

\* the foreign selection j of line k is the first thing in the cart that fails:
\* the earlier lines validate and the earlier selections of the line are its own
FirstFailureForeignAt(items, k, j) ==
    /\ ProductExists(items[k])
    /\ products[items[k].ProductID].IsAvailable
    /\ products[items[k].ProductID].IsCustomizable
    /\ SelectionForeign(items[k], j)
    /\ \A h \in 1..(j - 1) : SelectionOwned(items[k], h)
    /\ \A i \in 1..(k - 1) : LineValidates(items[i])

\* C18, amended: for every cart in which a selection of another product is the
\* first thing that fails (the line's product is available and customizable, the
\* earlier lines validate, the earlier selections of the line exist and are its
\* own), CreateOrder of an existing user and CreateGuestOrder fail with
\* ErrInvalidCustomization and leave no order behind.
C18_FirstForeignCustomizationRejected ==
    [][\A user \in Callers : \A items \in cartPool :
          ( /\ \E k \in 1..Len(items) : \E j \in 1..Len(items[k].Customizations) :
                  FirstFailureForeignAt(items, k, j)
            /\ CreateOrderBegin(1, user, items) )
          => /\ last'.err = "ErrInvalidCustomization"
             /\ UNCHANGED <<orders, order_items, creq>>]_vars

\* C18 witness: ErrInvalidCustomization for a cart whose second line selects one
\* customization of its own and then one of another product
C18_Witness ==
    /\ last.err = "ErrInvalidCustomization"
    /\ \E items \in cartPool :
          /\ Len(items) = 2
          /\ LineValidates(items[1])
          /\ Len(items[2].Customizations) = 2
          /\ FirstFailureForeignAt(items, 2, 2)

\* some line of the cart fails some check
SomeLineFails(items) == \E k \in 1..Len(items) : ~LineValidates(items[k])

ValidationErrors ==
    {"product not found", "ErrProductNotAvailable", "ErrProductNotCustomizable",
     "customization not found", "ErrInvalidCustomization"}

\* C19: when any line of the cart fails any check, at any position, the call
\* returns a validation error, no Order row and no Order Item row exists then or
\* later, and no request ever holds a generated order number.
C19_ValidationAllOrNothing ==
    /\ [][\A user \in Callers : \A items \in cartPool :
            (SomeLineFails(items) /\ CreateOrderBegin(1, user, items))
            => /\ last'.err \in ValidationErrors
               /\ UNCHANGED <<orders, order_items, creq>>]_vars
    /\ []((\E items \in cartPool : SomeLineFails(items)) => NothingCreated)

\* C19 witness: a cart whose first line validates and whose second line puts a
\* selection on a product that is not customizable was rejected
C19_Witness ==
    /\ last.err = "ErrProductNotCustomizable"
    /\ NothingCreated
    /\ \E items \in cartPool :
          /\ Len(items) = 2
          /\ LineValidates(items[1])
          /\ ProductExists(items[2])
          /\ ~products[items[2].ProductID].IsCustomizable
          /\ items[2].Customizations # <<>>

----------------------------------------------------------------------------
(* Claims about the atomicity of order creation (SpecCreate) *)

\* the item rows of order o
ItemsOf(o) == {i \in 1..Len(order_items) : order_items[i].OrderID = o}

\* no item row without its order row
NoOrphanItem == \A i \in 1..Len(order_items) : order_items[i].OrderID \in OrderIDs

\* no order row without items, and the items of an order are its lines 1..n, once each
NoOrderWithoutItems ==
    \A o \in OrderIDs :
       /\ ItemsOf(o) # {}
       /\ \A i \in ItemsOf(o) : order_items[i].Line \in 1..Cardinality(ItemsOf(o))
       /\ \A i, j \in ItemsOf(o) : order_items[i].Line = order_items[j].Line => i = j

\* a transaction that did not commit left both tables as they were and the call,
\* if it returned, returned an error
FailedCommitWritesNothing ==
    \A w \in Workers : \A db \in TxOutcomes \ {"ok"} :
       CreateOrderCommit(w, db) => /\ UNCHANGED <<orders, order_items>>
                                   /\ last'.err # "nil"

\* a transaction that committed added the order row and one item row for every
\* line of the request's cart, in the cart's order
CommitWritesWholeCart ==
    \A w \in Workers :
       (CreateOrderCommit(w, "ok") /\ last'.err = "nil")
       => LET id == Len(orders) + 1
              cart == creq[w].req
          IN  /\ Len(orders') = id
              /\ SubSeq(orders', 1, Len(orders)) = orders
              /\ orders'[id].OrderNumber = creq[w].order.OrderNumber
              /\ Len(order_items') = Len(order_items) + Len(cart)
              /\ SubSeq(order_items', 1, Len(order_items)) = order_items
              /\ \A k \in 1..Len(cart) :
                    LET row == order_items'[Len(order_items) + k]
                    IN  /\ row.OrderID = id
                        /\ row.Line = k
                        /\ row.ProductID = cart[k].ProductID
                        /\ row.Quantity = cart[k].Quantity

\* any step adds an order row exactly when it adds item rows
RowsComeTogether == (orders' # orders) <=> (order_items' # order_items)

\* C20: order creation is atomic across the Order row and its Order Item rows. When
\* the insert of the items fails, or the process stops, after the order row was
\* inserted, neither is persisted; a creation that commits persists the order
\* with one item per line of its cart; in every reachable state no item row is
\* without its order and no order row is without its items.
C20_OrderAndItemsAtomic ==
    /\ [](NoOrphanItem /\ NoOrderWithoutItems)
    /\ [][FailedCommitWritesNothing /\ CommitWritesWholeCart /\ RowsComeTogether]_vars

\* C20 witness: after an order of two lines was persisted with both items, a
\* creation whose items could not be inserted left the tables as they were
C20_Witness ==
    /\ last.err = "insert of order items failed"
    /\ \E o \in OrderIDs : Cardinality(ItemsOf(o)) = 2
    /\ Len(orders) = 1
    /\ Len(order_items) = 2

----------------------------------------------------------------------------
(* Claims about the catalog changing under an order (SpecCatalog) *)

\* the amounts of an order row
AmountsOf(order) == <<order.Subtotal, order.Tax, order.Total>>

\* what an order item snapshots of its line
SnapshotOf(item) ==
    <<item.ProductName, item.UnitPrice, item.Quantity, item.Subtotal, item.Customizations>>

\* C21: once an order is created, no operation (product update, soft-delete,
\* restore, customization update or delete, UpdateOrderStatus, payment token
\* creation, webhook processing, another read or creation) changes its subtotal,
\* tax or total, nor any of its items' product name, unit price, quantity,
\* subtotal or customization list; no order row and no item row disappears.
C21_OrderSnapshotFrozen ==
    [][ /\ Len(orders') >= Len(orders)
        /\ Len(order_items') >= Len(order_items)
        /\ \A o \in OrderIDs : AmountsOf(orders'[o]) = AmountsOf(orders[o])
        /\ \A i \in 1..Len(order_items) :
              SnapshotOf(order_items'[i]) = SnapshotOf(order_items[i]) ]_vars

\* C21 witness: the product of an item was renamed, repriced and soft-deleted and
\* the selected customization repriced and deleted after the order was created,
\* and the order was paid and moved on; the item still has the name and price of
\* the day it was ordered
C21_Witness ==
    /\ Len(orders) = 1 /\ orders[1].Status = OrderStatusReady
    /\ payments # <<>> /\ payments[1].TransactionStatus = Some(TransactionStatusSettlement)
    /\ customizations[1].Deleted /\ customizations[1].PriceModifier = Rp(7000)
    /\ \E i \in 1..Len(order_items) :
          LET product == products[order_items[i].ProductID]
          IN  /\ product.Deleted
              /\ product.Name = Str_MatchaLatteXL /\ order_items[i].ProductName = Str_MatchaLatte
              /\ product.BasePrice = Rp(52000) /\ order_items[i].UnitPrice = Rp(50000)
              /\ orders[1].Subtotal = Rp(50000)

\* C22: GetOrder called by a member answers 200 with the order when the order
\* belongs to that member and 403 when it belongs to another user or is a guest
\* order; admin and barista callers get 200 for every existing order.
C22_MemberReadsOwnOrder ==
    [][\A reader \in OrderReaders : \A o \in OrderIDs :
          GetOrder(reader[1], reader[2], o)
          => last'.status = IF reader[1] = RoleMember /\ orders[o].UserID # Some(reader[2])
                            THEN 403 ELSE 200]_vars

\* some line of the cart has a quantity of zero or less
NonPositiveLine(items) == \E k \in 1..Len(items) : items[k].Quantity <= 0

\* C27: the order service rejects a cart line whose quantity is zero or negative:
\* a CreateOrder / CreateGuestOrder call with such a line ends with an error and
\* without an order row.
C27_NonPositiveQuantityRejected ==
    [][\A w \in Workers :
          ( /\ creq[w].pc = "numbered"
            /\ NonPositiveLine(creq[w].req)
            /\ CreateOrderCommit(w, "ok") )
          => /\ last'.err # "nil"
             /\ orders' = orders]_vars

\* the first line of the cart that fails names a product that is missing or
\* soft-deleted
ProductMissingAt(items, k) ==
    /\ ~ProductExists(items[k])
    /\ \A i \in 1..(k - 1) : LineValidates(items[i])

\* C28: creating an order with a line whose product does not exist or is
\* soft-deleted fails with a not-found outcome that the handler answers with 404;
\* a cart whose lines all validate, also after a restore of its product, is
\* accepted.
C28_MissingProductIsNotFound ==
    [][\A user \in Callers : \A items \in cartPool :
          CreateOrderBegin(1, user, items)
          => /\ (\E k \in 1..Len(items) : ProductMissingAt(items, k))
                   => CreateOrderStatus(last'.err) = 404
             /\ (\A k \in 1..Len(items) : LineValidates(items[k]))
                   => last'.err = "running"]_vars

----------------------------------------------------------------------------
(* Claims about concurrent status updates (SpecRace) *)

\* C24: however two concurrent UpdateOrderStatus calls on one order interleave,
\* a call succeeds only if its target is allowed from the status the order has
\* when the call writes (so of a call to preparing and a call to cancelled on a
\* pending order at most one succeeds), and every change of the persisted status
\* is an edge of the lifecycle graph.
C24_ConcurrentUpdatesFollowLifecycle ==
    [][ /\ \A w \in Workers :
              UpdateOrderStatusWrite(w)
              => isValidStatusTransition(orders[ureq[w].order].Status, ureq[w].status)
        /\ \A o \in OrderIDs :
              orders'[o].Status # orders[o].Status
              => <<orders[o].Status, orders'[o].Status>> \in LifecycleEdges ]_vars

----------------------------------------------------------------------------
(* Further claims about payment reconciliation (Spec) *)

\* C25: ProcessWebhookNotification changes an order's status only along an edge
\* of the lifecycle graph; in particular it leaves the status of an order in
\* preparing or ready as it is, whatever the notification.
C25_WebhookFollowsLifecycle ==
    [][last'.op = "ProcessWebhookNotification"
       => \A o \in OrderIDs :
             /\ orders'[o].Status # orders[o].Status
                   => <<orders[o].Status, orders'[o].Status>> \in LifecycleEdges
             /\ orders[o].Status \in {OrderStatusPreparing, OrderStatusReady}
                   => orders'[o].Status = orders[o].Status]_vars

----------------------------------------------------------------------------
(* Claims about order numbers on a busy day (SpecBusy) *)

\* the sequence numbers used on the day, as numbers
SequencesOf(day) ==
    {DigitsVal(SequencePart(orders[i].OrderNumber, day)) :
        i \in {j \in OrderIDs : orders[j].CreatedDay = day}}

\* the greatest sequence number used on the day, 0 when there is none
GreatestSequence(day) ==
    IF SequencesOf(day) = {} THEN 0
    ELSE CHOOSE n \in SequencesOf(day) : \A m \in SequencesOf(day) : m <= n

\* C26: with creations running one after the other on one date, every creation
\* persists its order under a sequence number one greater than the greatest
\* sequence number used that day, also at and past 1000 where the number is
\* four digits wide: no creation fails on a number already used.
C26_SequentialCreationsGetFreshNumbers ==
    [][\A w \in Workers :
          ( /\ InFlight = 1
            /\ creq[w].pc = "numbered"
            /\ creq[w].today = clock.day
            /\ CreateOrderCommit(w, "ok") )
          => /\ last'.err = "nil"
             /\ Len(orders') = Len(orders) + 1
             /\ DigitsVal(SequencePart(orders'[Len(orders')].OrderNumber, clock.day))
                   = GreatestSequence(clock.day) + 1]_vars

\* the genuine settlement notification that echoes the amount the gateway was
\* asked to charge for payment i
ChargedNotification(i) ==
    LET charged == FormatAmount(GrossAmt(orders[payments[i].OrderID]))
    IN  Notification(payments[i].MidtransOrderID, charged, charged, ServerKey,
                     TransactionStatusSettlement)

\* C29: for every Payment the amount sent to the gateway equals the amount stored
\* on the Payment row, and the genuine notification that echoes the amount sent
\* passes the amount verification, also for an order total that is not whole.
C29_ChargedAmountIsStoredAmount ==
    /\ [](\A i \in PaymentIDs : GrossAmt(orders[payments[i].OrderID]) = payments[i].GrossAmount)
    /\ [][last'.op = "ProcessWebhookNotification"
          => \A i \in PaymentIDs :
                ProcessWebhookNotification(ChargedNotification(i))
                => last'.err # "ErrInvalidAmount"]_vars

----------------------------------------------------------------------------
(* Claims about refresh tokens (SpecAuth) *)

\* the token has a row and every row of it is revoked
Revoked(tbl, token) ==
    /\ TokenStored(tbl, token)
    /\ \A i \in 1..Len(tbl) : tbl[i].Token = token => tbl[i].RevokedAt # Nil

\* C23: RefreshToken rotates the token. A call that succeeds leaves the presented
\* token revoked and has stored a token that was not stored before and differs
\* from the presented one; a revoked token stays revoked, and a RefreshToken call
\* that presents a revoked token fails with ErrInvalidRefreshToken. A call that
\* fails because its user is inactive changes no row of refresh_tokens: the
\* presented token is not revoked and no token is stored.
C23_RefreshTokenRotates ==
    [][ /\ \A w \in Workers :
              (rreq[w].pc = "revoked" /\ RefreshTokenStore(w) /\ last'.err = "nil")
              => /\ Revoked(refresh_tokens', rreq[w].token)
                 /\ Len(refresh_tokens') = Len(refresh_tokens) + 1
                 /\ ~TokenStored(refresh_tokens, refresh_tokens'[Len(refresh_tokens')].Token)
                 /\ refresh_tokens'[Len(refresh_tokens')].Token # rreq[w].token
                 /\ refresh_tokens'[Len(refresh_tokens')].RevokedAt = Nil
        /\ \A token \in PresentedTokens :
              Revoked(refresh_tokens, token) => Revoked(refresh_tokens', token)
        /\ \A w \in Workers, token \in PresentedTokens :
              (rreq[w].pc = "idle" /\ Revoked(refresh_tokens, token)
                 /\ RefreshTokenFind(w, token))
              => last' = RefreshResult(w, token, "ErrInvalidRefreshToken")
        /\ \A w \in Workers :
              (rreq[w].pc = "found" /\ ~users[rreq[w].user].IsActive /\ RefreshTokenUser(w))
              => /\ last'.err \in {"ErrUserInactive", "ErrUserNotFound"}
                 /\ rreq'[w] = Idle
                 /\ refresh_tokens' = refresh_tokens ]_vars

\* C23 witness: a RefreshToken call has just succeeded; the token it presented is
\* revoked and the newest row holds another, unrevoked token
C23_Witness ==
    /\ last.op = "RefreshToken" /\ last.err = "nil"
    /\ Revoked(refresh_tokens, last.token)
    /\ refresh_tokens[Len(refresh_tokens)].Token # last.token
    /\ refresh_tokens[Len(refresh_tokens)].RevokedAt = Nil

\* C30: a refresh token is exchanged at most once under concurrency: however
\* RefreshToken calls presenting the same token interleave, at most one new
\* access/refresh token pair is returned for that token.
C30_RefreshTokenExchangedOnce ==
    \A a, b \in responses : a.Request = b.Request => a = b

====
